---- MODULE Spec2Model ----
(***************************************************************************)
(* BAVA live captions: the speaker-diarization engine of                   *)
(* src/unnamed/part_001 (voice fingerprinting, speaker profiles, the       *)
(* two-threshold detectSpeakerChange policy, colours, persistence and the  *)
(* listening-session lifecycle).                                           *)
(*                                                                         *)
(* Numbers: JavaScript numbers are modelled as exact rationals <<n, d>>    *)
(* (d > 0, lowest terms); floating-point rounding is not modelled.         *)
(* Optional values (null / undefined) are modelled as a sequence of length *)
(* 0 (absent) or 1 (present).                                              *)
(***************************************************************************)
EXTENDS Integers, Sequences, FiniteSets, TLC

\* ------------------------------------------------------------------------
\* Program constants
\* ------------------------------------------------------------------------
SPEAKER_ANALYSIS_THRESHOLD == 2000
VOICE_PROFILE_MIN_SAMPLES == 5
SPEAKER_COLORS_length == 8
DefaultSpeakerSensitivity == 15
pitchRange == 440
centroidRange == 3800
\* the top of the sensitivity slider (the bottom is 0)
SensitivityMax == 100

\* ------------------------------------------------------------------------
\* Bounds of the model
\* ------------------------------------------------------------------------
\* longest segment buffer the sampler fills
MaxBuf == 5
\* largest speakerCount from which the model goes on
MaxSpeakers == 2
\* largest sampleCount a profile reaches
MaxSampleCount == 2
\* largest sampleCount a profile reaches when segments overlap
MaxOverlapSampleCount == 1
\* largest nextColorIndex from which the model goes on
MaxColorIndex == 2
\* most samples of a second voice at the end of one segment buffer
MaxForeign == 1
\* longest segment buffer when the voices talk across each other
MaxMixedBuf == 6
\* largest sampleCount a profile reaches when the store can fail
MaxFaultSampleCount == 10
\* largest speakerCount and nextColorIndex from which a round of many
\* speakers goes on
MaxRound == 9
\* number of speakers who take turns and come back
MaxReturnVoices == 3
\* largest sampleCount of a profile in a session of many segments
MaxBlendSampleCount == 4
\* largest sampleCount of a profile in sessions that pass two periodic saves
MaxLongSampleCount == 20

\* ------------------------------------------------------------------------
\* Inputs of the environment
\* ------------------------------------------------------------------------
\* Time is kept relative to the last speech event: the code reads
\* state.lastSpeechTime only for null and in now - state.lastSpeechTime, so
\* the origin of Date.now() is moved to Epoch at every speech event, and
\* lastSpeechTime is 0 (null) or Epoch.
Epoch == SPEAKER_ANALYSIS_THRESHOLD
\* elapsed time between two consecutive speech events: none, the longest
\* silence that is no gap, and the shortest that is one
Gaps == {0, SPEAKER_ANALYSIS_THRESHOLD, SPEAKER_ANALYSIS_THRESHOLD + 1}
\* the voices that can be heard, with the (pitch, centroid) a sampler tick
\* measures while they talk
Voices == {"A", "B"}
Silence == "silence"
\* sounds of which one extraction yields nothing: noise has no pitch, a hum
\* below the range of the frequency analyser has no centroid
Noise == "noise"
Hum == "hum"
Unvoiced == {Silence, Noise, Hum}
\* the voices of a round of many speakers, in the order they take their
\* turn: pitches 60, 190, 320, 450 Hz at centroids 300, 1900, 3500 Hz, any
\* two of them further apart than the top sensitivity tolerates
RoundVoices ==
  <<"V0", "V1", "V2", "V3", "V4", "V5", "V6", "V7", "V8", "V9", "V10", "V11">>
RoundFeatures(i) ==
  [pitch |-> 60 + 130 * (i % 4), centroid |-> 300 + 1600 * (i \div 4)]
VoiceFeatures(v) ==
  IF v = "A" THEN [pitch |-> 120, centroid |-> 800]
  ELSE IF v = "B" THEN [pitch |-> 220, centroid |-> 2500]
  ELSE IF v = Noise THEN [pitch |-> 0, centroid |-> 1500]
  ELSE IF v = Hum THEN [pitch |-> 100, centroid |-> 0]
  ELSE IF \E i \in 1..Len(RoundVoices) : RoundVoices[i] = v
  THEN RoundFeatures((CHOOSE i \in 1..Len(RoundVoices) : RoundVoices[i] = v) - 1)
  ELSE [pitch |-> 0, centroid |-> 0]
\* the speakers of a conversation in which everyone comes back
ReturnVoices == {RoundVoices[i] : i \in 1..MaxReturnVoices}
\* values of the sensitivity slider used in the sessions
Sensitivities == {DefaultSpeakerSensitivity, 100}
\* every value of the sensitivity slider
SliderValues == 0..SensitivityMax
\* outcomes of localStorage.setItem / getItem (FALSE: it throws)
WriteOutcomes == {TRUE}
ReadOutcomes == {TRUE}
\* what the rename prompt returns (after trim)
PromptNames == {"Anna"}
\* outcomes of localStorage.setItem / getItem when the store can fail
FaultOutcomes == BOOLEAN
\* the voice heard in the sessions in which the store can fail
FaultVoices == {"A"}

\* ------------------------------------------------------------------------
\* Exact rational arithmetic
\* ------------------------------------------------------------------------
\* The operators on rationals bind their arguments once (a function applied
\* to them), so that a nested term is computed once however often it is used.
The(S) == CHOOSE x \in S : TRUE
Rats == Int \X Int

Abs(x) == IF x < 0 THEN -x ELSE x

RECURSIVE GCD(_, _)
GCD(a, b) == IF b = 0 THEN a ELSE GCD(b, a % b)

LCM(a, b) == (a \div GCD(a, b)) * b

Rat(n, d) ==
  [x \in Int, y \in Int |->
     [g \in Int |-> <<x \div g, y \div g>>][GCD(Abs(x), y)]][n, d]
RInt(i) == <<i, 1>>
RAdd(a, b) ==
  [x \in Rats, y \in Rats |->
     [l \in Int |-> Rat(x[1] * (l \div x[2]) + y[1] * (l \div y[2]), l)]
       [LCM(x[2], y[2])]][a, b]
RNeg(a) == [x \in Rats |-> <<-x[1], x[2]>>][a]
RSub(a, b) == RAdd(a, RNeg(b))
RMul(a, b) ==
  [x \in Rats, y \in Rats |->
     [g1 \in Int, g2 \in Int |->
        Rat((x[1] \div g1) * (y[1] \div g2), (x[2] \div g2) * (y[2] \div g1))]
       [GCD(Abs(x[1]), y[2]), GCD(Abs(y[1]), x[2])]][a, b]
RDivInt(a, i) == RMul(a, <<1, i>>)
RAbs(a) == [x \in Rats |-> <<Abs(x[1]), x[2]>>][a]
RLeq(a, b) ==
  \E x \in {a}, y \in {b} :
    \E g \in {GCD(x[2], y[2])} : x[1] * (y[2] \div g) <= y[1] * (x[2] \div g)
RLess(a, b) ==
  \E x \in {a}, y \in {b} :
    \E g \in {GCD(x[2], y[2])} : x[1] * (y[2] \div g) < y[1] * (x[2] \div g)
RMin(a, b) == [x \in Rats, y \in Rats |-> IF RLeq(x, y) THEN x ELSE y][a, b]
RMax(a, b) == [x \in Rats, y \in Rats |-> IF RLeq(x, y) THEN y ELSE x][a, b]

\* ------------------------------------------------------------------------
\* Maps keyed by speaker id (JavaScript objects)
\* ------------------------------------------------------------------------
EmptyMap == [x \in {} |-> 0]
Put(f, k, v) == [x \in (DOMAIN f) \cup {k} |-> IF x = k THEN v ELSE f[x]]
Remove(f, k) == [x \in (DOMAIN f) \ {k} |-> f[x]]
Absent == <<>>
Present(x) == <<x>>
IsPresent(o) == Len(o) > 0
Value(o) == o[1]
\* ------------------------------------------------------------------------
\* State
\* ------------------------------------------------------------------------
VARIABLES
  isListening,        \* state.isListening
  recognition,        \* life cycle of state.recognition:
                      \*   "none" | "starting" | "active" | "stopped"
  voiceSampleTimer,   \* state.voiceSampleTimer is set (the interval runs)
  pitchAnalyser,      \* state.audioContext, analyser and pitchAnalyser are set
  voiceSampleBuffer,  \* state.voiceSampleBuffer
  pendingAnalysis,    \* state._pendingAnalysis
  currentSpeakerId,   \* state.currentSpeakerId
  speakerCount,       \* state.speakerCount
  speakerProfiles,    \* state.speakerProfiles
  speakerNames,       \* state.speakerNames
  speakerColorMap,    \* state.speakerColorMap
  nextColorIndex,     \* state.nextColorIndex
  lastSpeechTime,     \* state.lastSpeechTime (0 models null)
  speakerSensitivity, \* state.settings.speakerSensitivity
  storage,            \* localStorage[SPEAKERS_KEY]: Absent or Present(snapshot)
  savedSpeakersList,  \* ids with a delete button in the saved-speakers list
  sessionParagraphs,  \* speaker ids of state.sessionParagraphs
  lastEvent,          \* history: what the last handler did (NoEvent if nothing
                      \*   of interest): for a speech event, whether its
                      \*   silence gap is above SPEAKER_ANALYSIS_THRESHOLD and
                      \*   the outcome of detectSpeakerChange ("fold" when
                      \*   its gap block folds a fingerprint); for
                      \*   stopListening, the sampling timer before the call
                      \*   and when the last segment is folded
  gapSeen,            \* history: a speech event since resetSpeakerState had a
                      \*   silence gap above SPEAKER_ANALYSIS_THRESHOLD
  firstSegment,       \* history: progress of a session that starts on an empty
                      \*   store with the default sensitivity, hears voice "A",
                      \*   then one silence gap, then voice "B"
  voiceTag,           \* history: per voice, the id the last decision of this
                      \*   session on a buffer of that voice alone returned
                      \*   (-1: none)
  heardSpeech         \* history: a speech event has been handled since
                      \*   resetSpeakerState

vars == <<isListening, recognition, voiceSampleTimer, pitchAnalyser,
          voiceSampleBuffer, pendingAnalysis, currentSpeakerId, speakerCount,
          speakerProfiles, speakerNames, speakerColorMap, nextColorIndex,
          lastSpeechTime, speakerSensitivity, storage, savedSpeakersList,
          sessionParagraphs, lastEvent, gapSeen, firstSegment, voiceTag,
          heardSpeech>>

\* ------------------------------------------------------------------------
\* Fingerprints
\* ------------------------------------------------------------------------
RECURSIVE SumPitch(_)
SumPitch(samples) ==
  IF samples = <<>> THEN 0 ELSE Head(samples).pitch + SumPitch(Tail(samples))

RECURSIVE SumCentroid(_)
SumCentroid(samples) ==
  IF samples = <<>> THEN 0 ELSE Head(samples).centroid + SumCentroid(Tail(samples))

RECURSIVE SumSqDev(_, _, _)
\* sum of (x - sum/n)^2 over a sequence of integers xs, in units of 1/n^2:
\* the sum of (n*x - sum)^2
SumSqDev(xs, sum, n) ==
  IF xs = <<>> THEN 0
  ELSE (n * Head(xs) - sum) * (n * Head(xs) - sum) + SumSqDev(Tail(xs), sum, n)

\* sum over xs of (x - sum/n)^2, divided by n
Variance(xs, sum, n) == RDivInt(Rat(SumSqDev(xs, sum, n), n * n), n)

Pitches(samples) == [i \in 1..Len(samples) |-> samples[i].pitch]
Centroids(samples) == [i \in 1..Len(samples) |-> samples[i].centroid]

\* variant: a list of exactly VOICE_PROFILE_MIN_SAMPLES samples is too short
buildFingerprintNeedsMore(samples) ==
  IF Len(samples) <= VOICE_PROFILE_MIN_SAMPLES THEN Absent
  ELSE LET n == Len(samples)
           pitchSum == SumPitch(samples)
           centroidSum == SumCentroid(samples)
       IN Present([pitchAvg |-> Rat(pitchSum, n),
                   pitchVar |-> Variance(Pitches(samples), pitchSum, n),
                   centroidAvg |-> Rat(centroidSum, n),
                   centroidVar |-> Variance(Centroids(samples), centroidSum, n)])

\* buildFingerprint(samples): Absent models null
buildFingerprint(samples) ==
  IF Len(samples) < VOICE_PROFILE_MIN_SAMPLES THEN Absent
  ELSE LET n == Len(samples)
           pitchSum == SumPitch(samples)
           centroidSum == SumCentroid(samples)
       IN Present([pitchAvg |-> Rat(pitchSum, n),
                   pitchVar |-> Variance(Pitches(samples), pitchSum, n),
                   centroidAvg |-> Rat(centroidSum, n),
                   centroidVar |-> Variance(Centroids(samples), centroidSum, n)])

\* variant: the pitch of one fingerprint is held against the centroid of the
\* other
compareFingerprintsCrossed(fp1, fp2) ==
  IF ~IsPresent(fp1) \/ ~IsPresent(fp2) THEN RInt(0)
  ELSE LET a == Value(fp1)
           b == Value(fp2)
           pitchDiff == RDivInt(RAbs(RSub(a.pitchAvg, b.centroidAvg)), pitchRange)
           centroidDiff ==
             RDivInt(RAbs(RSub(a.centroidAvg, b.pitchAvg)), centroidRange)
           distance == RAdd(RMul(pitchDiff, <<3, 5>>), RMul(centroidDiff, <<2, 5>>))
       IN RMax(RInt(0), RSub(RInt(1), RMul(distance, RInt(3))))

\* variant: only the first argument is tested for null, and a missing second
\* one counts as a match
compareFingerprintsOneSided(fp1, fp2) ==
  IF ~IsPresent(fp1) THEN RInt(0)
  ELSE IF ~IsPresent(fp2) THEN RInt(1)
  ELSE LET a == Value(fp1)
           b == Value(fp2)
           pitchDiff == RDivInt(RAbs(RSub(a.pitchAvg, b.pitchAvg)), pitchRange)
           centroidDiff ==
             RDivInt(RAbs(RSub(a.centroidAvg, b.centroidAvg)), centroidRange)
           distance == RAdd(RMul(pitchDiff, <<3, 5>>), RMul(centroidDiff, <<2, 5>>))
       IN RMax(RInt(0), RSub(RInt(1), RMul(distance, RInt(3))))

\* compareFingerprints(fp1, fp2); both arguments are optional values
compareFingerprints(fp1, fp2) ==
  IF ~IsPresent(fp1) \/ ~IsPresent(fp2) THEN RInt(0)
  ELSE LET a == Value(fp1)
           b == Value(fp2)
           pitchDiff == RDivInt(RAbs(RSub(a.pitchAvg, b.pitchAvg)), pitchRange)
           centroidDiff ==
             RDivInt(RAbs(RSub(a.centroidAvg, b.centroidAvg)), centroidRange)
           distance == RAdd(RMul(pitchDiff, <<3, 5>>), RMul(centroidDiff, <<2, 5>>))
       IN RMax(RInt(0), RSub(RInt(1), RMul(distance, RInt(3))))

\* variant: the threshold falls from 0.50 to 0.05 over the slider
getSpeakerDifferThresholdFalling(sensitivity) ==
  RSub(<<1, 2>>, RMul(Rat(sensitivity, 100), <<9, 20>>))

\* variant: the slider value is not scaled to 0..1
getSpeakerDifferThresholdUnscaled(sensitivity) ==
  RAdd(<<1, 20>>, RMul(RInt(sensitivity), <<9, 20>>))

\* getSpeakerDifferThreshold(): 0.05 + (sensitivity / 100) * 0.45
getSpeakerDifferThreshold(sensitivity) ==
  RAdd(<<1, 20>>, RMul(Rat(sensitivity, 100), <<9, 20>>))

\* ------------------------------------------------------------------------
\* Speaker profiles
\* ------------------------------------------------------------------------
\* variant: the learning rate never falls below 0.3
AlphaFloored(sampleCount) == RMax(<<3, 10>>, Rat(1, sampleCount + 1))

\* the learning rate of updateSpeakerProfile
Alpha(sampleCount) == RMin(<<3, 10>>, Rat(1, sampleCount + 1))
Ewma(old, new, alpha) ==
  RAdd(RMul(old, RSub(RInt(1), alpha)), RMul(new, alpha))

\* the profile stored by updateSpeakerProfile for an id that has one
UpdatedProfile(existing, fp) ==
  LET alpha == Alpha(existing.sampleCount)
  IN [pitchAvg |-> Ewma(existing.pitchAvg, fp.pitchAvg, alpha),
      pitchVar |-> Ewma(existing.pitchVar, fp.pitchVar, alpha),
      centroidAvg |-> Ewma(existing.centroidAvg, fp.centroidAvg, alpha),
      centroidVar |-> Ewma(existing.centroidVar, fp.centroidVar, alpha),
      sampleCount |-> existing.sampleCount + 1]

\* the profile stored by updateSpeakerProfile for an id that has none
CreatedProfile(fp) ==
  [pitchAvg |-> fp.pitchAvg, pitchVar |-> fp.pitchVar,
   centroidAvg |-> fp.centroidAvg, centroidVar |-> fp.centroidVar,
   sampleCount |-> 1]

\* variant: an update without fingerprint still counts as a sample
updateSpeakerProfileCountsAbsent(profiles, speakerId, fingerprint) ==
  IF ~IsPresent(fingerprint)
  THEN IF speakerId \in DOMAIN profiles
       THEN [profiles EXCEPT ![speakerId].sampleCount = @ + 1]
       ELSE profiles
  ELSE IF speakerId \notin DOMAIN profiles
       THEN Put(profiles, speakerId, CreatedProfile(Value(fingerprint)))
       ELSE Put(profiles, speakerId,
                UpdatedProfile(profiles[speakerId], Value(fingerprint)))

\* state.speakerProfiles after updateSpeakerProfile(speakerId, fingerprint)
updateSpeakerProfile(profiles, speakerId, fingerprint) ==
  IF ~IsPresent(fingerprint) THEN profiles
  ELSE IF speakerId \notin DOMAIN profiles
       THEN Put(profiles, speakerId, CreatedProfile(Value(fingerprint)))
       ELSE Put(profiles, speakerId,
                UpdatedProfile(profiles[speakerId], Value(fingerprint)))

\* variant: the periodic save comes with every 20th update
UpdateAutoSavesRarely(profiles, speakerId, fingerprint) ==
  /\ IsPresent(fingerprint)
  /\ speakerId \in DOMAIN profiles
  /\ (profiles[speakerId].sampleCount + 1) % 20 = 0

\* updateSpeakerProfile calls saveSpeakerProfiles (every 10th update)
UpdateAutoSaves(profiles, speakerId, fingerprint) ==
  /\ IsPresent(fingerprint)
  /\ speakerId \in DOMAIN profiles
  /\ (profiles[speakerId].sampleCount + 1) % 10 = 0

\* ------------------------------------------------------------------------
\* Persistence
\* ------------------------------------------------------------------------
\* the record saveSpeakerProfiles serialises
Snapshot(profiles, names, colorMap, nextColor, count) ==
  [profiles |-> profiles, names |-> names, colorMap |-> colorMap,
   nextColorIndex |-> nextColor, speakerCount |-> count]

\* JSON text of an object keyed by speaker ids: its members <<key, value>>
\* in the order JSON.stringify writes integer-like keys (ascending).  A
\* number is written so that it reads back as the same number, and a profile
\* is a record of numbers.
RECURSIVE Entries(_)
Entries(f) ==
  IF DOMAIN f = {} THEN <<>>
  ELSE LET k == CHOOSE x \in DOMAIN f : \A y \in DOMAIN f : x <= y
       IN <<<<k, f[k]>>>> \o Entries(Remove(f, k))

\* the object JSON.parse builds from the members: the last member of a key
\* wins
FromEntries(es) ==
  [k \in {es[i][1] : i \in 1..Len(es)} |->
     es[CHOOSE i \in 1..Len(es) :
          es[i][1] = k /\ \A j \in 1..Len(es) : j > i => es[j][1] # k][2]]

\* JSON.stringify(data) of the record of saveSpeakerProfiles (savedAt is
\* written and never read back)
JSONstringify(data) ==
  [profiles |-> Entries(data.profiles), names |-> Entries(data.names),
   colorMap |-> Entries(data.colorMap),
   nextColorIndex |-> data.nextColorIndex, speakerCount |-> data.speakerCount]

\* JSON.parse(raw) of a text JSONstringify wrote
JSONparse(raw) ==
  [profiles |-> FromEntries(raw.profiles), names |-> FromEntries(raw.names),
   colorMap |-> FromEntries(raw.colorMap),
   nextColorIndex |-> raw.nextColorIndex, speakerCount |-> raw.speakerCount]

\* localStorage after saveSpeakerProfiles; writeOk = FALSE: setItem throws
saveSpeakerProfiles(old, snapshot, writeOk) ==
  IF writeOk THEN Present(JSONstringify(snapshot)) ELSE old

\* variant: the error of setItem leaves saveSpeakerProfiles
saveSpeakerProfilesRethrows(writeOk) == ~writeOk

\* saveSpeakerProfiles() ends with an error, which unwinds its callers up to
\* the event handler: its try/catch leaves no error
saveSpeakerProfilesThrows(writeOk) == FALSE

\* the value a field has after the steps that follow a call: they are
\* skipped when the call ended with an error
AfterCall(thrown, before, after) == IF thrown THEN before ELSE after

\* variant: a failed read is not caught and the stored record is used
loadSpeakerProfilesUnguarded(stored, readOk) ==
  IF IsPresent(stored) THEN Present(JSONparse(Value(stored))) ELSE Absent

\* loadSpeakerProfiles(); readOk = FALSE: getItem or JSON.parse throws
loadSpeakerProfiles(stored, readOk) ==
  IF readOk /\ IsPresent(stored) THEN Present(JSONparse(Value(stored)))
  ELSE Absent

\* the ids renderSavedSpeakers lists (its read of the store succeeds)
renderSavedSpeakers(stored) ==
  LET saved == loadSpeakerProfiles(stored, TRUE)
  IN IF IsPresent(saved) THEN DOMAIN Value(saved).profiles ELSE {}

\* ------------------------------------------------------------------------
\* The diarization policy
\* ------------------------------------------------------------------------
silenceGap(now) == IF lastSpeechTime # 0 THEN now - lastSpeechTime ELSE 0

\* variant: a silence of exactly the threshold counts as a gap
GapReached(gap) == gap >= SPEAKER_ANALYSIS_THRESHOLD

GapExceeded(gap) == gap > SPEAKER_ANALYSIS_THRESHOLD

\* variant: startVoiceSampling registers no interval
startVoiceSamplingKeepsTimer(timer) == timer

\* state.voiceSampleTimer after startVoiceSampling()
startVoiceSamplingTimer(timer) == TRUE

\* variant: startVoiceSampling restarts the timer and keeps the buffer
startVoiceSamplingKeepsBuffer(buffer) == buffer

\* the buffer startVoiceSampling leaves
startVoiceSamplingBuffer(buffer) == <<>>

\* the condition of the analysis block of detectSpeakerChange
AnalysisDue(pending, buffer) ==
  pending /\ Len(buffer) >= VOICE_PROFILE_MIN_SAMPLES

\* variant: a current speaker without profile is as different as can be
CurrentSimilarityZeroIfNone(profiles, current, fp) ==
  IF current \in DOMAIN profiles
  THEN compareFingerprints(fp, Present(profiles[current]))
  ELSE RInt(0)

\* similarity of a fingerprint to the current speaker's profile (1 if none)
CurrentSimilarity(profiles, current, fp) ==
  IF current \in DOMAIN profiles
  THEN compareFingerprints(fp, Present(profiles[current]))
  ELSE RInt(1)

\* variant: the loop stops at the first other profile that scores above 0
BestMatchFirst(profiles, current, fp) ==
  LET Score(id) == compareFingerprints(fp, Present(profiles[id]))
      cands == {id \in (DOMAIN profiles) \ {current} : RLess(RInt(0), Score(id))}
  IN IF cands = {} THEN -1
     ELSE CHOOSE i \in cands : \A j \in cands : i <= j

\* the loop over Object.entries(state.speakerProfiles): ids in ascending
\* order, a later id wins only with a strictly higher score; -1 when no
\* other profile scores above 0
BestMatch(profiles, current, fp) ==
  LET Score(id) == compareFingerprints(fp, Present(profiles[id]))
      cands == {id \in (DOMAIN profiles) \ {current} : RLess(RInt(0), Score(id))}
  IN IF cands = {} THEN -1
     ELSE CHOOSE i \in cands :
            \A j \in cands : \/ RLess(Score(j), Score(i))
                             \/ (Score(j) = Score(i) /\ i <= j)

BestScore(profiles, current, fp) ==
  LET m == BestMatch(profiles, current, fp)
  IN IF m = -1 THEN RInt(0) ELSE compareFingerprints(fp, Present(profiles[m]))

\* variant: the comparison with differThreshold is inverted
StaysBelowThreshold(similarity, threshold) == RLeq(similarity, threshold)

\* current similarity >= differThreshold: stay with the current speaker
StaysWithCurrent(similarity, threshold) == RLeq(threshold, similarity)

\* variant: the best other profile is accepted whatever its score
MatchesKnownAtAnyScore(bestMatch, bestScore, threshold) == bestMatch >= 0

\* variant: speaker id 0 is taken for "no match"
MatchesKnownButZero(bestMatch, bestScore, threshold) ==
  bestMatch > 0 /\ RLeq(threshold, bestScore)

\* the best other profile is accepted
MatchesKnown(bestMatch, bestScore, threshold) ==
  bestMatch >= 0 /\ RLeq(threshold, bestScore)

\* variant: a pending analysis decides one sample early, on a buffer that
\* has no fingerprint yet
DecisionForced(pending, buffer) ==
  pending /\ Len(buffer) >= VOICE_PROFILE_MIN_SAMPLES - 1

\* the analysis block takes a decision: its condition holds and
\* buildFingerprint returns a fingerprint
DecisionTaken(pending, buffer) ==
  AnalysisDue(pending, buffer) /\ IsPresent(buildFingerprint(buffer))

\* variant: the stay path leaves the pending flag as it is
PendingKeptOnStay(pending) == pending

\* state._pendingAnalysis after the stay path of the analysis block
PendingAfterStay(pending) == FALSE

\* The analysis block of detectSpeakerChange, run on (profiles, buffer,
\* pending) as the gap block left them.
Analyse(profiles, buffer, pending, current, count, sensitivity) ==
  IF ~DecisionTaken(pending, buffer)
  THEN [current |-> current, count |-> count, pending |-> pending,
        kind |-> "none"]
  ELSE The({The({
    IF StaysWithCurrent(similarity, threshold)
    THEN [current |-> current, count |-> count,
          pending |-> PendingAfterStay(pending),
          kind |-> IF RLess(similarity, bestScore)
                   THEN "stayBetterOther" ELSE "stay"]
    ELSE IF MatchesKnown(bestMatch, bestScore, threshold)
    THEN [current |-> bestMatch, count |-> count, pending |-> FALSE,
          kind |-> "switch"]
    ELSE [current |-> count, count |-> count + 1, pending |-> FALSE,
          kind |-> "mint"] :
      similarity \in {CurrentSimilarity(known, current, fp)},
      bestMatch \in {BestMatch(known, current, fp)},
      bestScore \in {BestScore(known, current, fp)}}) :
    known \in {profiles},
    fp \in {buildFingerprint(buffer)},
    threshold \in {getSpeakerDifferThreshold(sensitivity)}})

\* detectSpeakerChange() at time now; folded is the fingerprint the gap
\* block builds
detectSpeakerChange(now) ==
  The({The({The({
    [gap |-> gap,
     autoSave |-> gap /\ UpdateAutoSaves(speakerProfiles, currentSpeakerId, folded),
     profiles |-> profiles1,
     buffer |-> buffer1,
     timer |-> IF gap THEN startVoiceSamplingTimer(voiceSampleTimer)
               ELSE voiceSampleTimer,
     pending |-> a.pending,
     current |-> a.current,
     count |-> a.count,
     kind |-> a.kind] :
      a \in {Analyse(profiles1, buffer1, pending1, currentSpeakerId,
                     speakerCount, speakerSensitivity)}}) :
    profiles1 \in {IF gap
                   THEN updateSpeakerProfile(speakerProfiles, currentSpeakerId, folded)
                   ELSE speakerProfiles},
    buffer1 \in {IF gap THEN startVoiceSamplingBuffer(voiceSampleBuffer)
                 ELSE voiceSampleBuffer},
    pending1 \in {IF gap THEN TRUE ELSE pendingAnalysis}}) :
    gap \in {GapExceeded(silenceGap(now))},
    folded \in {IF GapExceeded(silenceGap(now))
                THEN buildFingerprint(voiceSampleBuffer) ELSE Absent}})

\* variant: every call assigns the next palette entry
getSpeakerColorReassigns(colorMap, nextColor, speakerId) ==
  Put(colorMap, speakerId, nextColor % SPEAKER_COLORS_length)

\* variant: the palette index is not wrapped
getSpeakerColorUnwrapped(colorMap, nextColor, speakerId) ==
  IF speakerId \in DOMAIN colorMap THEN colorMap
  ELSE Put(colorMap, speakerId, nextColor)

\* state.speakerColorMap after getSpeakerColor(speakerId)
getSpeakerColor(colorMap, nextColor, speakerId) ==
  IF speakerId \in DOMAIN colorMap THEN colorMap
  ELSE Put(colorMap, speakerId, nextColor % SPEAKER_COLORS_length)

\* state.nextColorIndex after getSpeakerColor(speakerId)
getSpeakerColorNext(colorMap, nextColor, speakerId) ==
  IF speakerId \in DOMAIN colorMap THEN nextColor ELSE nextColor + 1

\* ------------------------------------------------------------------------
\* History variables
\* ------------------------------------------------------------------------
NoEvent ==
  [op |-> "idle", longGap |-> FALSE, kind |-> "none",
   timerBefore |-> FALSE, timerAtFold |-> FALSE]

NotTracking == [phase |-> "void", heard |-> 0]

\* firstSegment after one sampling interval in which voice talks
Heard(fs, voice) ==
  LET more == [fs EXCEPT !.heard =
                 IF fs.heard < VOICE_PROFILE_MIN_SAMPLES THEN fs.heard + 1
                 ELSE fs.heard]
  IN IF voice \in Unvoiced \/ fs.phase = "void" THEN fs
     ELSE IF fs.phase = "first" THEN (IF voice = "A" THEN more ELSE NotTracking)
     ELSE (IF voice = "B" THEN more ELSE NotTracking)

\* firstSegment after a speech event with the given silence gap
HeardGap(fs, gap) ==
  IF gap <= SPEAKER_ANALYSIS_THRESHOLD THEN fs
  ELSE IF fs.phase = "first" /\ fs.heard >= VOICE_PROFILE_MIN_SAMPLES
       THEN [phase |-> "second", heard |-> 0]
       ELSE NotTracking

NoTags == [v \in Voices |-> -1]

\* the voice all samples of a non-empty buffer come from ("none" otherwise)
PureVoice(buffer) ==
  LET vs == {v \in Voices : \A i \in 1..Len(buffer) :
                buffer[i] = [pitch |-> VoiceFeatures(v).pitch,
                             centroid |-> VoiceFeatures(v).centroid]}
  IN IF buffer = <<>> \/ vs = {} THEN "none" ELSE CHOOSE v \in vs : TRUE

\* ------------------------------------------------------------------------
\* Initial state: the state literal of the script, then init()
\* ------------------------------------------------------------------------
Init ==
  /\ isListening = FALSE
  /\ recognition = "none"
  /\ voiceSampleTimer = FALSE
  /\ pitchAnalyser = FALSE
  /\ voiceSampleBuffer = <<>>
  /\ pendingAnalysis = FALSE
  /\ currentSpeakerId = 0
  /\ speakerCount = 0
  /\ speakerProfiles = EmptyMap
  /\ speakerNames = EmptyMap
  /\ speakerColorMap = EmptyMap
  /\ nextColorIndex = 0
  /\ lastSpeechTime = 0
  /\ speakerSensitivity = DefaultSpeakerSensitivity
  /\ storage = Absent
  /\ savedSpeakersList = renderSavedSpeakers(Absent)
  /\ sessionParagraphs = {}
  /\ lastEvent = NoEvent
  /\ gapSeen = FALSE
  /\ heardSpeech = FALSE
  /\ firstSegment = NotTracking
  /\ voiceTag = NoTags

\* ------------------------------------------------------------------------
\* The voice sampler
\* ------------------------------------------------------------------------
\* estimatePitch() / calculateSpectralCentroid() on the live audio; voice is
\* what the microphone hears during the tick
estimatePitch(voice) == IF pitchAnalyser THEN VoiceFeatures(voice).pitch ELSE 0
calculateSpectralCentroid(voice) ==
  IF pitchAnalyser THEN VoiceFeatures(voice).centroid ELSE 0

\* variant: a sample with a pitch is stored whatever its centroid
collectVoiceSampleOnPitch(buffer, pitch, centroid) ==
  IF pitch > 0
  THEN Append(buffer, [pitch |-> pitch, centroid |-> centroid])
  ELSE buffer

\* state.voiceSampleBuffer after collectVoiceSample()
collectVoiceSample(buffer, pitch, centroid) ==
  IF pitch > 0 /\ centroid > 0
  THEN Append(buffer, [pitch |-> pitch, centroid |-> centroid])
  ELSE buffer

\* the setInterval callback of startVoiceSampling
SamplerTick(voice) ==
  /\ voiceSampleTimer
  /\ voiceSampleBuffer' =
       collectVoiceSample(voiceSampleBuffer, estimatePitch(voice),
                          calculateSpectralCentroid(voice))
  /\ lastEvent' = NoEvent
  /\ firstSegment' = Heard(firstSegment, voice)
  /\ UNCHANGED <<isListening, recognition, voiceSampleTimer, pitchAnalyser,
                 pendingAnalysis, currentSpeakerId, speakerCount,
                 speakerProfiles, speakerNames, speakerColorMap,
                 nextColorIndex, lastSpeechTime, speakerSensitivity, storage,
                 savedSpeakersList, sessionParagraphs, gapSeen, heardSpeech, voiceTag>>

\* one sampling interval of a session passes while no interval timer is
\* registered: somebody talks, no callback runs
Speak(voice) ==
  /\ ~voiceSampleTimer
  /\ recognition \in {"starting", "active"}
  /\ firstSegment' = Heard(firstSegment, voice)
  /\ firstSegment' # firstSegment
  /\ lastEvent' = NoEvent
  /\ UNCHANGED <<isListening, recognition, voiceSampleTimer, pitchAnalyser,
                 voiceSampleBuffer, pendingAnalysis, currentSpeakerId,
                 speakerCount, speakerProfiles, speakerNames, speakerColorMap,
                 nextColorIndex, lastSpeechTime, speakerSensitivity, storage,
                 savedSpeakersList, sessionParagraphs, gapSeen, heardSpeech, voiceTag>>

\* ------------------------------------------------------------------------
\* Listening control
\* ------------------------------------------------------------------------
\* finalizeSession(): state.sessionParagraphs afterwards
finalizeSession(paragraphs, autoSave) ==
  IF paragraphs = {} \/ ~autoSave THEN paragraphs ELSE {}

\* resetSpeakerState(): the saved record is used
UsesSaved(saved) ==
  IsPresent(saved) /\ DOMAIN Value(saved).profiles # {}

\* state.voiceSampleTimer after setupAudioAnalysis() -> startVoiceSampling()
setupAudioAnalysisTimer(timer) == TRUE

\* variant: resetSpeakerState keeps the time of the last speech event
resetSpeakerStateKeepsLastSpeechTime(time) == time

\* state.lastSpeechTime after resetSpeakerState() (null)
resetSpeakerStateLastSpeechTime(time) == 0

\* state.voiceSampleTimer after resetSpeakerState() -> stopVoiceSampling()
resetSpeakerStateTimer(timer) == FALSE

\* startListening() from toggleListening (the microphone is granted, the
\* audio context and the recognition engine are available):
\* setupAudioAnalysis(), recognition.start(), resetSpeakerState()
StartListening(readOk) ==
  LET saved == loadSpeakerProfiles(storage, readOk)
      data == Value(saved)
  IN
  /\ ~isListening
  /\ recognition' = "starting"
  /\ pitchAnalyser' = TRUE
  /\ sessionParagraphs' = {}
  /\ IF UsesSaved(saved)
     THEN /\ speakerProfiles' = data.profiles
          /\ speakerNames' = data.names
          /\ speakerColorMap' = data.colorMap
          /\ nextColorIndex' =
               IF data.nextColorIndex # 0 THEN data.nextColorIndex
               ELSE Cardinality(DOMAIN data.colorMap)
          /\ speakerCount' =
               IF data.speakerCount # 0 THEN data.speakerCount
               ELSE Cardinality(DOMAIN data.profiles)
     ELSE /\ speakerProfiles' = EmptyMap
          /\ speakerNames' = EmptyMap
          /\ speakerColorMap' = EmptyMap
          /\ nextColorIndex' = 0
          /\ speakerCount' = 1
  /\ currentSpeakerId' = 0
  /\ lastSpeechTime' = resetSpeakerStateLastSpeechTime(lastSpeechTime)
  /\ voiceSampleBuffer' = <<>>
  /\ pendingAnalysis' = FALSE
  /\ voiceSampleTimer' =
       resetSpeakerStateTimer(setupAudioAnalysisTimer(voiceSampleTimer))
  /\ lastEvent' = NoEvent
  /\ gapSeen' = FALSE
  /\ heardSpeech' = FALSE
  /\ firstSegment' =
       IF ~UsesSaved(saved) /\ speakerSensitivity = DefaultSpeakerSensitivity
       THEN [phase |-> "first", heard |-> 0]
       ELSE NotTracking
  /\ voiceTag' = NoTags
  /\ UNCHANGED <<isListening, speakerSensitivity, storage, savedSpeakersList>>

\* recognition.onstart
OnStart ==
  /\ recognition = "starting"
  /\ recognition' = "active"
  /\ isListening' = TRUE
  /\ lastEvent' = NoEvent
  /\ UNCHANGED <<voiceSampleTimer, pitchAnalyser, voiceSampleBuffer,
                 pendingAnalysis, currentSpeakerId, speakerCount,
                 speakerProfiles, speakerNames, speakerColorMap,
                 nextColorIndex, lastSpeechTime, speakerSensitivity, storage,
                 savedSpeakersList, sessionParagraphs, gapSeen, heardSpeech, firstSegment,
                 voiceTag>>

\* the time stamps Date.now() can return in the next speech event
Nows ==
  IF lastSpeechTime = 0 THEN {Epoch}
  ELSE {lastSpeechTime + g : g \in Gaps}

\* recognition.onresult -> handleResults(event): detectSpeakerChange(),
\* getSpeakerColor(), addCaptionBubble() for a final result.  A result can
\* still be delivered after recognition.stop().  The event holds a final
\* result or interim results only.
OnResult(now, writeOk) ==
  /\ recognition \in {"active", "stopped"}
  /\ \E r \in {detectSpeakerChange(now)} :
     \E voice \in {IF r.kind = "none" THEN "none" ELSE PureVoice(voiceSampleBuffer)} :
     \E final \in BOOLEAN :
     \E thrown \in {r.autoSave /\ saveSpeakerProfilesThrows(writeOk)} :
       /\ speakerProfiles' = r.profiles
       /\ voiceSampleBuffer' = AfterCall(thrown, voiceSampleBuffer, r.buffer)
       /\ voiceSampleTimer' = AfterCall(thrown, voiceSampleTimer, r.timer)
       /\ pendingAnalysis' = AfterCall(thrown, pendingAnalysis, r.pending)
       /\ currentSpeakerId' = AfterCall(thrown, currentSpeakerId, r.current)
       /\ speakerCount' = AfterCall(thrown, speakerCount, r.count)
       /\ storage' =
            IF r.autoSave
            THEN saveSpeakerProfiles(storage,
                   Snapshot(r.profiles, speakerNames, speakerColorMap,
                            nextColorIndex, speakerCount), writeOk)
            ELSE storage
       /\ lastSpeechTime' = AfterCall(thrown, lastSpeechTime, Epoch)
       /\ speakerColorMap' =
            AfterCall(thrown, speakerColorMap,
                      getSpeakerColor(speakerColorMap, nextColorIndex, r.current))
       /\ nextColorIndex' =
            AfterCall(thrown, nextColorIndex,
                      getSpeakerColorNext(speakerColorMap, nextColorIndex, r.current))
       /\ sessionParagraphs' =
            AfterCall(thrown, sessionParagraphs,
                      IF final THEN sessionParagraphs \cup {r.current}
                      ELSE sessionParagraphs)
       /\ lastEvent' =
            [op |-> "result",
             longGap |-> silenceGap(now) > SPEAKER_ANALYSIS_THRESHOLD,
             kind |-> IF r.gap /\ IsPresent(buildFingerprint(voiceSampleBuffer))
                      THEN "fold"
                      ELSE IF r.kind = "switch" /\ voice \in Voices
                              /\ voiceTag[voice] = r.current
                      THEN "rematch" ELSE r.kind,
             timerBefore |-> FALSE, timerAtFold |-> FALSE]
       /\ gapSeen' = (gapSeen \/ silenceGap(now) > SPEAKER_ANALYSIS_THRESHOLD)
       /\ heardSpeech' = TRUE
       /\ firstSegment' = HeardGap(firstSegment, silenceGap(now))
       /\ voiceTag' = IF voice \in Voices
                      THEN [voiceTag EXCEPT ![voice] = r.current]
                      ELSE voiceTag
       /\ UNCHANGED <<isListening, recognition, pitchAnalyser, speakerNames,
                      speakerSensitivity, savedSpeakersList>>

\* state.voiceSampleTimer after stopAudioAnalysis() -> stopVoiceSampling()
stopAudioAnalysisTimer(timer) == FALSE

\* variant: stopAudioAnalysis drops the samples with the timer
stopAudioAnalysisClearsBuffer(buffer) == <<>>

\* state.voiceSampleBuffer after stopAudioAnalysis()
stopAudioAnalysisBuffer(buffer) == buffer

\* stopListening(): from toggleListening while isListening, or from
\* recognition.onerror 'not-allowed' while the recognition starts.
\* stopAudioAnalysis() runs first, then buildFingerprint(),
\* updateSpeakerProfile(), saveSpeakerProfiles(), renderSavedSpeakers(),
\* finalizeSession().
StopListening(writeOk1, writeOk2, autoSave) ==
  /\ isListening \/ recognition = "starting"
  /\ \E timer1 \in {stopAudioAnalysisTimer(voiceSampleTimer)} :
     \E buffer1 \in {stopAudioAnalysisBuffer(voiceSampleBuffer)} :
     \E fp \in {buildFingerprint(buffer1)} :
     \E profiles1 \in {updateSpeakerProfile(speakerProfiles, currentSpeakerId, fp)} :
     LET snapshot == Snapshot(profiles1, speakerNames, speakerColorMap,
                              nextColorIndex, speakerCount)
         storage1 == IF UpdateAutoSaves(speakerProfiles, currentSpeakerId, fp)
                     THEN saveSpeakerProfiles(storage, snapshot, writeOk1)
                     ELSE storage
         thrown1 == /\ UpdateAutoSaves(speakerProfiles, currentSpeakerId, fp)
                    /\ saveSpeakerProfilesThrows(writeOk1)
         thrown2 == thrown1 \/ saveSpeakerProfilesThrows(writeOk2)
     IN
       /\ isListening' = FALSE
       /\ recognition' = "stopped"
       /\ voiceSampleTimer' = timer1
       /\ pitchAnalyser' = FALSE
       /\ voiceSampleBuffer' = buffer1
       /\ speakerProfiles' = profiles1
       /\ storage' = AfterCall(thrown1, storage1,
                               saveSpeakerProfiles(storage1, snapshot, writeOk2))
       /\ savedSpeakersList' = AfterCall(thrown2, savedSpeakersList,
                                         renderSavedSpeakers(storage'))
       /\ sessionParagraphs' =
            AfterCall(thrown2, sessionParagraphs,
                      finalizeSession(sessionParagraphs, autoSave))
       /\ lastEvent' = [op |-> "stop", longGap |-> FALSE,
                        kind |-> IF IsPresent(fp) THEN "fold" ELSE "none",
                        timerBefore |-> voiceSampleTimer,
                        timerAtFold |-> timer1]
       /\ firstSegment' = NotTracking
       /\ voiceTag' = NoTags
       /\ UNCHANGED <<pendingAnalysis, currentSpeakerId, speakerCount,
                      speakerNames, speakerColorMap, nextColorIndex,
                      lastSpeechTime, speakerSensitivity, gapSeen,
                      heardSpeech>>

\* recognition.onend after stopListening()
OnEnd(autoSave) ==
  /\ recognition = "stopped"
  /\ ~isListening
  /\ recognition' = "none"
  /\ sessionParagraphs' = finalizeSession(sessionParagraphs, autoSave)
  /\ lastEvent' = NoEvent
  /\ UNCHANGED <<isListening, voiceSampleTimer, pitchAnalyser,
                 voiceSampleBuffer, pendingAnalysis, currentSpeakerId,
                 speakerCount, speakerProfiles, speakerNames, speakerColorMap,
                 nextColorIndex, lastSpeechTime, speakerSensitivity, storage,
                 savedSpeakersList, gapSeen, heardSpeech, firstSegment, voiceTag>>

\* ------------------------------------------------------------------------
\* Settings panel and legend
\* ------------------------------------------------------------------------
\* click on btnClearSpeakers, confirmed
ClearSpeakers ==
  /\ storage' = Absent
  /\ speakerProfiles' = EmptyMap
  /\ speakerNames' = EmptyMap
  /\ speakerColorMap' = EmptyMap
  /\ nextColorIndex' = 0
  /\ speakerCount' = 1
  /\ currentSpeakerId' = 0
  /\ savedSpeakersList' = renderSavedSpeakers(storage')
  /\ lastEvent' = NoEvent
  /\ firstSegment' = NotTracking
  /\ voiceTag' = NoTags
  /\ UNCHANGED <<isListening, recognition, voiceSampleTimer, pitchAnalyser,
                 voiceSampleBuffer, pendingAnalysis, lastSpeechTime,
                 speakerSensitivity, sessionParagraphs, gapSeen,
                 heardSpeech>>

\* click on the delete button of one saved speaker
DeleteSavedSpeaker(speakerId, writeOk) ==
  /\ speakerId \in savedSpeakersList
  /\ speakerProfiles' = Remove(speakerProfiles, speakerId)
  /\ speakerNames' = Remove(speakerNames, speakerId)
  /\ speakerColorMap' = Remove(speakerColorMap, speakerId)
  /\ storage' = saveSpeakerProfiles(storage,
                  Snapshot(speakerProfiles', speakerNames', speakerColorMap',
                           nextColorIndex, speakerCount), writeOk)
  /\ savedSpeakersList' = AfterCall(saveSpeakerProfilesThrows(writeOk),
                                    savedSpeakersList,
                                    renderSavedSpeakers(storage'))
  /\ lastEvent' = NoEvent
  /\ firstSegment' = NotTracking
  /\ voiceTag' = NoTags
  /\ UNCHANGED <<isListening, recognition, voiceSampleTimer, pitchAnalyser,
                 voiceSampleBuffer, pendingAnalysis, currentSpeakerId,
                 speakerCount, nextColorIndex, lastSpeechTime,
                 speakerSensitivity, sessionParagraphs, gapSeen,
                 heardSpeech>>

\* the page is loaded again: the script starts from its state literal, the
\* store and the saved settings stay, setupEventListeners() renders the
\* saved-speakers list
PageLoad ==
  /\ isListening' = FALSE
  /\ recognition' = "none"
  /\ voiceSampleTimer' = FALSE
  /\ pitchAnalyser' = FALSE
  /\ voiceSampleBuffer' = <<>>
  /\ pendingAnalysis' = FALSE
  /\ currentSpeakerId' = 0
  /\ speakerCount' = 0
  /\ speakerProfiles' = EmptyMap
  /\ speakerNames' = EmptyMap
  /\ speakerColorMap' = EmptyMap
  /\ nextColorIndex' = 0
  /\ lastSpeechTime' = 0
  /\ savedSpeakersList' = renderSavedSpeakers(storage)
  /\ sessionParagraphs' = {}
  /\ lastEvent' = NoEvent
  /\ gapSeen' = FALSE
  /\ heardSpeech' = FALSE
  /\ firstSegment' = NotTracking
  /\ voiceTag' = NoTags
  /\ UNCHANGED <<speakerSensitivity, storage>>

\* renameSpeaker(speakerId) from a legend chip or a caption label, the
\* prompt answered with a non-empty name (the sessions of Spec and
\* SpecOverlap rename nobody)
RenameSpeaker(speakerId, newName, writeOk) ==
  /\ speakerId \in (DOMAIN speakerColorMap) \cup sessionParagraphs
  /\ speakerNames' = Put(speakerNames, speakerId, newName)
  /\ storage' = saveSpeakerProfiles(storage,
                  Snapshot(speakerProfiles, speakerNames', speakerColorMap,
                           nextColorIndex, speakerCount), writeOk)
  /\ savedSpeakersList' = AfterCall(saveSpeakerProfilesThrows(writeOk),
                                    savedSpeakersList,
                                    renderSavedSpeakers(storage'))
  /\ lastEvent' = NoEvent
  /\ UNCHANGED <<isListening, recognition, voiceSampleTimer, pitchAnalyser,
                 voiceSampleBuffer, pendingAnalysis, currentSpeakerId,
                 speakerCount, speakerProfiles, speakerColorMap,
                 nextColorIndex, lastSpeechTime, speakerSensitivity,
                 sessionParagraphs, gapSeen, heardSpeech, firstSegment, voiceTag>>

\* input on the sensitivity slider
SetSensitivity(value) ==
  /\ value # speakerSensitivity
  /\ speakerSensitivity' = value
  /\ lastEvent' = NoEvent
  /\ firstSegment' = NotTracking
  /\ UNCHANGED <<isListening, recognition, voiceSampleTimer, pitchAnalyser,
                 voiceSampleBuffer, pendingAnalysis, currentSpeakerId,
                 speakerCount, speakerProfiles, speakerNames, speakerColorMap,
                 nextColorIndex, lastSpeechTime, storage, savedSpeakersList,
                 sessionParagraphs, gapSeen, heardSpeech, voiceTag>>

\* ------------------------------------------------------------------------
\* Specifications
\* ------------------------------------------------------------------------
\* the model goes on from the states with speakerCount and nextColorIndex
\* within their bounds
Explored ==
  /\ speakerCount <= MaxSpeakers
  /\ nextColorIndex <= MaxColorIndex

\* the bound on the number of folds into one profile
Bounded(maxSampleCount) ==
  \A id \in DOMAIN speakerProfiles :
    speakerProfiles[id].sampleCount <= maxSampleCount

\* the sampler hears one voice between two resets of the buffer
OneVoice(buffer) ==
  /\ Len(buffer) <= MaxBuf
  /\ \A i \in 1..Len(buffer) : buffer[i] = buffer[1]

\* the sampler hears one voice, then at most MaxForeign samples of the voice
\* that talks next, before the speech event that resets the buffer
LeadIn(buffer) ==
  /\ Len(buffer) <= MaxBuf
  /\ \A i \in 1..Len(buffer), j \in 1..Len(buffer) :
       (i < j /\ buffer[i] # buffer[1]) => buffer[j] = buffer[i]
  /\ Cardinality({i \in 1..Len(buffer) : buffer[i] # buffer[1]}) <= MaxForeign

\* Sessions in which each recognition result of a new segment arrives before
\* the sampler hears the new voice.
Next ==
  \/ Explored /\ \E voice \in Voices \cup {Silence} :
                  SamplerTick(voice) /\ OneVoice(voiceSampleBuffer')
  \/ Explored /\ \E voice \in Voices : Speak(voice)
  \/ Explored /\ \E readOk \in ReadOutcomes : StartListening(readOk)
  \/ Explored /\ OnStart
  \/ Explored /\ \E now \in Nows, writeOk \in WriteOutcomes :
                  OnResult(now, writeOk) /\ Bounded(MaxSampleCount)'
  \/ Explored /\ \E w1 \in WriteOutcomes, w2 \in WriteOutcomes, autoSave \in BOOLEAN :
                  StopListening(w1, w2, autoSave) /\ Bounded(MaxSampleCount)'
  \/ Explored /\ \E autoSave \in BOOLEAN : OnEnd(autoSave)
  \/ Explored /\ ClearSpeakers
  \/ Explored /\ \E id \in savedSpeakersList, writeOk \in WriteOutcomes :
                  DeleteSavedSpeaker(id, writeOk)
  \/ Explored /\ \E value \in Sensitivities : SetSensitivity(value)

Spec == Init /\ [][Next]_vars

\* Sessions in which the sampler can hear the next voice before the
\* recognition result of the new segment arrives.
NextOverlap ==
  \/ Explored /\ \E voice \in Voices \cup {Silence} :
                  SamplerTick(voice) /\ LeadIn(voiceSampleBuffer')
  \/ Explored /\ \E readOk \in ReadOutcomes : StartListening(readOk)
  \/ Explored /\ OnStart
  \/ Explored /\ \E now \in Nows, writeOk \in WriteOutcomes :
                  OnResult(now, writeOk) /\ Bounded(MaxOverlapSampleCount)'
  \/ Explored /\ \E w1 \in WriteOutcomes, w2 \in WriteOutcomes, autoSave \in BOOLEAN :
                  StopListening(w1, w2, autoSave) /\ Bounded(MaxOverlapSampleCount)'
  \/ Explored /\ \E autoSave \in BOOLEAN : OnEnd(autoSave)
  \/ Explored /\ ClearSpeakers
  \/ Explored /\ \E id \in savedSpeakersList, writeOk \in WriteOutcomes :
                  DeleteSavedSpeaker(id, writeOk)
  \/ Explored /\ \E value \in Sensitivities : SetSensitivity(value)

SpecOverlap == Init /\ [][NextOverlap]_vars

\* the sampler hears the voices in any order between two resets of the buffer
Mixed(buffer) == Len(buffer) <= MaxMixedBuf

\* One session, not stopped, in which the voices talk across each other, so
\* that a segment buffer holds any mixture of their samples.
NextMixed ==
  \/ Explored /\ \E voice \in Voices \cup {Silence} :
                  SamplerTick(voice) /\ Mixed(voiceSampleBuffer')
  \/ Explored /\ \E readOk \in ReadOutcomes : StartListening(readOk)
  \/ Explored /\ OnStart
  \/ Explored /\ \E now \in Nows, writeOk \in WriteOutcomes :
                  OnResult(now, writeOk) /\ Bounded(MaxOverlapSampleCount)'

SpecMixed == Init /\ [][NextMixed]_vars

\* Sessions of one speaker in which every read and write of the store can
\* fail, long enough for the periodic save of updateSpeakerProfile.
NextFaults ==
  \/ Explored /\ \E voice \in FaultVoices :
                  SamplerTick(voice) /\ OneVoice(voiceSampleBuffer')
  \/ Explored /\ \E readOk \in FaultOutcomes : StartListening(readOk)
  \/ Explored /\ OnStart
  \/ Explored /\ \E now \in Nows, writeOk \in FaultOutcomes :
                  OnResult(now, writeOk) /\ Bounded(MaxFaultSampleCount)'
  \/ Explored /\ \E w1 \in FaultOutcomes, w2 \in FaultOutcomes, autoSave \in BOOLEAN :
                  StopListening(w1, w2, autoSave) /\ Bounded(MaxFaultSampleCount)'
  \/ Explored /\ \E autoSave \in BOOLEAN : OnEnd(autoSave)
  \/ Explored /\ \E id \in DOMAIN speakerColorMap, newName \in PromptNames,
                     writeOk \in FaultOutcomes :
                  RenameSpeaker(id, newName, writeOk)

SpecFaults == Init /\ [][NextFaults]_vars

\* the voice whose turn it is in a round: each speaker talks until the
\* segment is folded into a profile, then the next one starts
RoundTurn == RoundVoices[Cardinality(DOMAIN speakerProfiles) + 1]

ExploredRound ==
  /\ speakerCount <= MaxRound
  /\ nextColorIndex <= MaxRound

\* One session on an empty store, at the top sensitivity, in which many
\* speakers talk one after the other, each for one segment.
NextRound ==
  \/ ExploredRound /\ SamplerTick(RoundTurn) /\ OneVoice(voiceSampleBuffer')
  \/ ExploredRound /\ recognition = "none"
                   /\ \E readOk \in ReadOutcomes : StartListening(readOk)
  \/ ExploredRound /\ OnStart
  \/ ExploredRound /\ \E now \in Nows, writeOk \in WriteOutcomes :
                       OnResult(now, writeOk) /\ Bounded(MaxOverlapSampleCount)'
  \/ ExploredRound /\ recognition = "none" /\ SetSensitivity(SensitivityMax)

SpecRound == Init /\ [][NextRound]_vars

\* One session on an empty store in which a few speakers, far apart from
\* each other, take turns in any order and come back.
NextReturn ==
  \/ ExploredRound /\ \E voice \in ReturnVoices :
                        SamplerTick(voice) /\ OneVoice(voiceSampleBuffer')
  \/ ExploredRound /\ recognition = "none"
                   /\ \E readOk \in ReadOutcomes : StartListening(readOk)
  \/ ExploredRound /\ OnStart
  \/ ExploredRound /\ \E now \in Nows, writeOk \in WriteOutcomes :
                       OnResult(now, writeOk) /\ Bounded(MaxOverlapSampleCount)'
  \/ ExploredRound /\ recognition = "none" /\ SetSensitivity(SensitivityMax)

SpecReturn == Init /\ [][NextReturn]_vars

\* One session on an empty store of many segments of two voices, long enough
\* for profiles that are updated several times.
NextBlend ==
  \/ Explored /\ \E voice \in Voices :
                  SamplerTick(voice) /\ OneVoice(voiceSampleBuffer')
  \/ Explored /\ recognition = "none"
              /\ \E readOk \in ReadOutcomes : StartListening(readOk)
  \/ Explored /\ OnStart
  \/ Explored /\ \E now \in Nows, writeOk \in WriteOutcomes :
                  OnResult(now, writeOk) /\ Bounded(MaxBlendSampleCount)'

SpecBlend == Init /\ [][NextBlend]_vars

\* One session on an empty store in which the microphone also hears
\* silence, noise and a hum.
NextSounds ==
  \/ Explored /\ \E sound \in Voices \cup Unvoiced :
                  SamplerTick(sound) /\ OneVoice(voiceSampleBuffer')
  \/ Explored /\ recognition = "none"
              /\ \E readOk \in ReadOutcomes : StartListening(readOk)
  \/ Explored /\ OnStart
  \/ Explored /\ \E now \in Nows, writeOk \in WriteOutcomes :
                  OnResult(now, writeOk) /\ Bounded(MaxOverlapSampleCount)'

SpecSounds == Init /\ [][NextSounds]_vars

\* The settings panel alone: the sensitivity slider is dragged over its
\* whole range while nothing is recorded.
NextSlider ==
  \E value \in SliderValues : SetSensitivity(value)

SpecSlider == Init /\ [][NextSlider]_vars

\* Sessions of one speaker whose writes and reads of the store succeed, long
\* enough for two periodic saves of updateSpeakerProfile.
NextLong ==
  \/ Explored /\ \E voice \in FaultVoices :
                  SamplerTick(voice) /\ OneVoice(voiceSampleBuffer')
  \/ Explored /\ \E readOk \in ReadOutcomes : StartListening(readOk)
  \/ Explored /\ OnStart
  \/ Explored /\ \E now \in Nows, writeOk \in WriteOutcomes :
                  OnResult(now, writeOk) /\ Bounded(MaxLongSampleCount)'
  \/ Explored /\ \E w1 \in WriteOutcomes, w2 \in WriteOutcomes, autoSave \in BOOLEAN :
                  StopListening(w1, w2, autoSave) /\ Bounded(MaxLongSampleCount)'
  \/ Explored /\ \E autoSave \in BOOLEAN : OnEnd(autoSave)

SpecLong == Init /\ [][NextLong]_vars

\* Sessions of two voices, stopped and started again, with page loads in
\* between and deletions from the saved-speakers list at any time.
NextReload ==
  \/ Explored /\ \E voice \in Voices :
                  SamplerTick(voice) /\ OneVoice(voiceSampleBuffer')
  \/ Explored /\ \E readOk \in ReadOutcomes : StartListening(readOk)
  \/ Explored /\ OnStart
  \/ Explored /\ \E now \in Nows, writeOk \in WriteOutcomes :
                  OnResult(now, writeOk) /\ Bounded(MaxOverlapSampleCount)'
  \/ Explored /\ \E w1 \in WriteOutcomes, w2 \in WriteOutcomes, autoSave \in BOOLEAN :
                  StopListening(w1, w2, autoSave) /\ Bounded(MaxOverlapSampleCount)'
  \/ Explored /\ \E autoSave \in BOOLEAN : OnEnd(autoSave)
  \/ Explored /\ \E id \in savedSpeakersList, writeOk \in WriteOutcomes :
                  DeleteSavedSpeaker(id, writeOk)
  \/ Explored /\ PageLoad

SpecReload == Init /\ [][NextReload]_vars

\* Sessions of two voices, stopped and started again, in which nobody
\* touches the settings panel.
NextSessions ==
  \/ Explored /\ \E voice \in Voices \cup {Silence} :
                  SamplerTick(voice) /\ OneVoice(voiceSampleBuffer')
  \/ Explored /\ \E readOk \in ReadOutcomes : StartListening(readOk)
  \/ Explored /\ OnStart
  \/ Explored /\ \E now \in Nows, writeOk \in WriteOutcomes :
                  OnResult(now, writeOk) /\ Bounded(MaxSampleCount)'
  \/ Explored /\ \E w1 \in WriteOutcomes, w2 \in WriteOutcomes, autoSave \in BOOLEAN :
                  StopListening(w1, w2, autoSave) /\ Bounded(MaxSampleCount)'
  \/ Explored /\ \E autoSave \in BOOLEAN : OnEnd(autoSave)

SpecSessions == Init /\ [][NextSessions]_vars

\* the interval callback runs while somebody talks
VoicedTick ==
  Explored /\ \E voice \in Voices :
               SamplerTick(voice) /\ OneVoice(voiceSampleBuffer')

\* a recognition result arrives within the analysis threshold of the last one
SpeechWithoutGap ==
  Explored /\ \E now \in Nows, writeOk \in WriteOutcomes :
               /\ ~GapExceeded(silenceGap(now))
               /\ OnResult(now, writeOk)
               /\ Bounded(MaxSampleCount)'

\* a recognition result arrives after a silence longer than the threshold
SpeechAfterGap ==
  Explored /\ \E now \in Nows, writeOk \in WriteOutcomes :
               /\ GapExceeded(silenceGap(now))
               /\ OnResult(now, writeOk)
               /\ Bounded(MaxSampleCount)'

\* One session, not stopped, of two voices and silence.
NextLive ==
  \/ VoicedTick
  \/ Explored /\ SamplerTick(Silence)
  \/ Explored /\ recognition = "none"
              /\ \E readOk \in ReadOutcomes : StartListening(readOk)
  \/ Explored /\ OnStart
  \/ SpeechWithoutGap
  \/ SpeechAfterGap

\* The interval of startVoiceSampling fires every VOICE_SAMPLE_INTERVAL ms
\* while it is registered, and the recognition engine keeps delivering
\* results within the analysis threshold while somebody talks.
SpecLive ==
  /\ Init
  /\ [][NextLive]_vars
  /\ WF_vars(VoicedTick)
  /\ WF_vars(SpeechWithoutGap)

\* ------------------------------------------------------------------------
\* Properties
\* ------------------------------------------------------------------------
\* the step is a speech event (recognition.onresult)
IsSpeechEvent == lastEvent'.op = "result"

\* the step is a speech event whose silence gap exceeds the threshold
IsGapEvent == IsSpeechEvent /\ lastEvent'.longGap

\* the step is a speech event that takes the re-evaluation decision: no gap,
\* the analysis is pending and the buffer holds minSamples samples
IsDecision ==
  /\ IsSpeechEvent
  /\ ~lastEvent'.longGap
  /\ AnalysisDue(pendingAnalysis, voiceSampleBuffer)

\* similarity of the buffer's fingerprint to the stored profile of id
SimilarityTo(id) ==
  compareFingerprints(buildFingerprint(voiceSampleBuffer),
                      Present(speakerProfiles[id]))

differThreshold == getSpeakerDifferThreshold(speakerSensitivity)

\* C1: a speech event whose silence gap exceeds the analysis threshold
\* leaves currentSpeakerId (the id it returns) and speakerCount as they were
\* and sets the pending re-evaluation flag.
C1_GapAloneKeepsSpeaker ==
  [][IsGapEvent =>
       /\ currentSpeakerId' = currentSpeakerId
       /\ speakerCount' = speakerCount
       /\ pendingAnalysis']_vars

\* a gap event has run while two profiles are stored and the buffer held a
\* full segment: the segment is folded, the speaker is the one of before
C1_Witness ==
  /\ lastEvent.op = "result"
  /\ lastEvent.longGap
  /\ pendingAnalysis
  /\ voiceSampleBuffer = <<>>
  /\ Cardinality(DOMAIN speakerProfiles) = 2
  /\ currentSpeakerId = 1

\* C2: at a re-evaluation decision, if the similarity of the new fingerprint
\* to the current speaker's stored profile is >= differThreshold, then
\* currentSpeakerId and speakerCount are unchanged and the pending flag is
\* cleared, whatever the other profiles score.
C2_StaysWithCurrent ==
  [][(/\ IsDecision
      /\ currentSpeakerId \in DOMAIN speakerProfiles
      /\ RLeq(differThreshold, SimilarityTo(currentSpeakerId)))
       => /\ currentSpeakerId' = currentSpeakerId
          /\ speakerCount' = speakerCount
          /\ ~pendingAnalysis']_vars

\* a decision has stayed with the current speaker although another stored
\* profile scored strictly higher
C2_Witness ==
  /\ lastEvent.op = "result"
  /\ lastEvent.kind = "stayBetterOther"
  /\ currentSpeakerId \in DOMAIN speakerProfiles
  /\ ~pendingAnalysis

\* C3: in a session started on an empty store with the default sensitivity,
\* after voice (120, 800) has talked for minSamples sampling intervals, one
\* silence gap, and voice (220, 2500) has talked for minSamples sampling
\* intervals, a speech event of the second segment returns an id other than
\* the id 0 of the first segment.
C3_TwoVoicesTwoIds ==
  (/\ firstSegment.phase = "second"
   /\ firstSegment.heard >= VOICE_PROFILE_MIN_SAMPLES
   /\ lastEvent.op = "result")
    => currentSpeakerId # 0

\* C4: within a session, when a decision is taken on a buffer of voice v
\* alone, v was last attributed id a, the current speaker is another voice's
\* id with a profile the fingerprint scores below differThreshold against,
\* and the fingerprint scores >= differThreshold against a's profile, then
\* the current speaker becomes a and speakerCount is unchanged.
C4_ReturningVoiceRematches ==
  [][\A v \in Voices :
       (/\ IsDecision
        /\ PureVoice(voiceSampleBuffer) = v
        /\ voiceTag[v] >= 0
        /\ voiceTag[v] # currentSpeakerId
        /\ \E u \in Voices \ {v} : voiceTag[u] = currentSpeakerId
        /\ currentSpeakerId \in DOMAIN speakerProfiles
        /\ RLess(SimilarityTo(currentSpeakerId), differThreshold)
        /\ voiceTag[v] \in DOMAIN speakerProfiles
        /\ RLeq(differThreshold, SimilarityTo(voiceTag[v])))
         => /\ currentSpeakerId' = voiceTag[v]
            /\ speakerCount' = speakerCount]_vars

\* a decision has switched back to the id a voice had before another voice
\* took over
C4_Witness ==
  /\ lastEvent.op = "result"
  /\ lastEvent.kind = "rematch"
  /\ \E v \in Voices :
       /\ voiceTag[v] = currentSpeakerId
       /\ \E u \in Voices \ {v} : voiceTag[u] >= 0 /\ voiceTag[u] # currentSpeakerId

\* C5: as long as no speech event of the session had a silence gap above the
\* analysis threshold, a speech event changes neither currentSpeakerId nor
\* speakerCount.
C5_NoGapNoChange ==
  [][(IsSpeechEvent /\ ~gapSeen')
       => /\ currentSpeakerId' = currentSpeakerId
          /\ speakerCount' = speakerCount]_vars

\* a second speech event has run in a session without gaps, with the
\* profiles of an earlier session loaded
C5_Witness ==
  /\ lastEvent.op = "result"
  /\ ~lastEvent.longGap
  /\ ~gapSeen
  /\ Cardinality(DOMAIN speakerProfiles) = 2
  /\ recognition = "active"
  /\ sessionParagraphs # {}

\* the speaker ids in use: the current speaker, the keys of the stored
\* profiles, names and colours, the ids of the session's caption segments
IdsInUse ==
  {currentSpeakerId} \cup DOMAIN speakerProfiles \cup DOMAIN speakerNames
    \cup DOMAIN speakerColorMap \cup sessionParagraphs

\* C6: once a session has started, every speaker id in use is below
\* speakerCount.
C6_IdsBelowCount ==
  speakerCount > 0 => \A id \in IdsInUse : id < speakerCount

\* C7: a step that is neither clear-all nor the delete of that speaker keeps
\* every stored profile and does not lower its sampleCount.
C7_SampleCountKept ==
  [][\A id \in DOMAIN speakerProfiles :
       \/ ClearSpeakers
       \/ \E writeOk \in WriteOutcomes : DeleteSavedSpeaker(id, writeOk)
       \/ /\ id \in DOMAIN speakerProfiles'
          /\ speakerProfiles'[id].sampleCount >= speakerProfiles[id].sampleCount]_vars

\* C8 as amended: stopListening tears the sampling timer down first; the
\* buffer of the final segment is left as it is and its fingerprint is
\* folded into the current speaker's profile in the same handler.
C8_StopFoldsAfterTeardown ==
  [][lastEvent'.op = "stop" =>
       /\ ~lastEvent'.timerAtFold
       /\ ~voiceSampleTimer'
       /\ voiceSampleBuffer' = voiceSampleBuffer
       /\ speakerProfiles' =
            updateSpeakerProfile(speakerProfiles, currentSpeakerId,
                                 buildFingerprint(voiceSampleBuffer))]_vars

\* stopListening has folded a final segment sampled by a timer that ran
\* until the call
C8_Witness ==
  /\ lastEvent.op = "stop"
  /\ lastEvent.kind = "fold"
  /\ lastEvent.timerBefore
  /\ currentSpeakerId \in DOMAIN speakerProfiles
  /\ Len(voiceSampleBuffer) >= VOICE_PROFILE_MIN_SAMPLES

\* C8 as written: when stopListening folds the final segment, the sampling
\* timer that ran until the call is still running.
C8_FoldBeforeTeardown ==
  (lastEvent.op = "stop" /\ lastEvent.kind = "fold" /\ lastEvent.timerBefore)
    => lastEvent.timerAtFold

\* C9: the buffer folded at a silence gap holds samples of one voice only.
C9_FoldOfOneVoice ==
  [][(IsGapEvent /\ Len(voiceSampleBuffer) >= VOICE_PROFILE_MIN_SAMPLES)
       => PureVoice(voiceSampleBuffer) \in Voices]_vars

\* C10: from startListening until stopListening the sampling timer runs.
C10_SamplerRunsInSession ==
  recognition \in {"starting", "active"} => voiceSampleTimer

\* C11 as amended: the differThreshold of the sensitivity set on the slider
\* is strictly higher than the one of every lower slider value (raising the
\* sensitivity strictly raises differThreshold).
C11_HigherSensitivityRaisesThreshold ==
  \A s \in SliderValues :
    s < speakerSensitivity =>
      RLess(getSpeakerDifferThreshold(s), differThreshold)

\* the slider has been moved to its top
C11_Witness ==
  /\ speakerSensitivity = SensitivityMax
  /\ firstSegment = NotTracking
  /\ differThreshold = <<1, 2>>

\* C11 as written: the differThreshold of the sensitivity set on the slider
\* is strictly lower than the one of every lower slider value.
C11_HigherSensitivityLowersThreshold ==
  \A s \in SliderValues :
    s < speakerSensitivity =>
      RLess(differThreshold, getSpeakerDifferThreshold(s))

\* the re-evaluation decision on the current store, current speaker and
\* buffer, taken at sensitivity s, changes the current speaker id
ChangesAt(s) ==
  Analyse(speakerProfiles, voiceSampleBuffer, pendingAnalysis,
          currentSpeakerId, speakerCount, s).current # currentSpeakerId

\* C12: when the re-evaluation decision of a speech event changes the
\* current speaker id at the sensitivity s1 that is set, the decision on the
\* same profile store, current speaker and fingerprint changes it at every
\* higher sensitivity s2 of the slider.
C12_HigherSensitivityAlsoChanges ==
  [][(IsDecision /\ currentSpeakerId' # currentSpeakerId) =>
       /\ ChangesAt(speakerSensitivity)
       /\ \A s2 \in SliderValues : s2 > speakerSensitivity => ChangesAt(s2)]_vars

\* a decision at the default sensitivity has changed the current speaker
C12_Witness ==
  /\ lastEvent.op = "result"
  /\ lastEvent.kind \in {"switch", "rematch", "mint"}
  /\ speakerSensitivity = DefaultSpeakerSensitivity
  /\ recognition = "active"
  /\ ~pendingAnalysis

\* the store holds the snapshot of the speaker state in memory: it was saved
\* and nothing was updated since
SavedAsIs ==
  storage = saveSpeakerProfiles(storage,
              Snapshot(speakerProfiles, speakerNames, speakerColorMap,
                       nextColorIndex, speakerCount), TRUE)

\* C13: a session start that reloads the snapshot of the speaker state in
\* memory, saved with no update since, leaves speakerCount, colorMap,
\* nextColorIndex, names and profiles as they were before the save.
C13_RoundTrip ==
  [][(StartListening(TRUE) /\ SavedAsIs) =>
       /\ speakerCount' = speakerCount
       /\ speakerColorMap' = speakerColorMap
       /\ nextColorIndex' = nextColorIndex
       /\ speakerNames' = speakerNames
       /\ speakerProfiles' = speakerProfiles]_vars

\* C14: a session start that finds no saved record, whose read fails, or
\* whose record holds no profile, starts from the empty store with one
\* speaker slot: no profiles, names and colours, nextColorIndex 0,
\* speakerCount 1, currentSpeakerId 0, no analysis pending; the session is
\* started all the same.
C14_StartsFromEmptyStore ==
  [][\A readOk \in FaultOutcomes :
       (/\ StartListening(readOk)
        /\ \/ ~readOk
           \/ ~IsPresent(storage)
           \/ renderSavedSpeakers(storage) = {})
         => /\ speakerProfiles' = EmptyMap
            /\ speakerNames' = EmptyMap
            /\ speakerColorMap' = EmptyMap
            /\ nextColorIndex' = 0
            /\ speakerCount' = 1
            /\ currentSpeakerId' = 0
            /\ ~pendingAnalysis'
            /\ recognition' = "starting"]_vars

\* a session has started from the empty store although a record with a
\* profile is saved: its read failed
C14_Witness ==
  /\ recognition = "starting"
  /\ renderSavedSpeakers(storage) # {}
  /\ speakerProfiles = EmptyMap
  /\ speakerColorMap = EmptyMap
  /\ speakerCount = 1
  /\ nextColorIndex = 0

C16_ColoursInFirstSeenOrder ==
  /\ DOMAIN speakerColorMap = 0..(nextColorIndex - 1)
  /\ \A id \in DOMAIN speakerColorMap :
       /\ speakerColorMap[id] = id % SPEAKER_COLORS_length
       /\ speakerColorMap[id] \in 0..(SPEAKER_COLORS_length - 1)

\* the 9th distinct speaker id of a session has been minted and has the
\* first palette entry again
C16_Witness ==
  /\ lastEvent.op = "result"
  /\ lastEvent.kind = "mint"
  /\ currentSpeakerId = SPEAKER_COLORS_length
  /\ currentSpeakerId \in DOMAIN speakerColorMap
  /\ speakerColorMap[currentSpeakerId] = 0
  /\ speakerColorMap[0] = 0
  /\ nextColorIndex = SPEAKER_COLORS_length + 1


\* ------------------------------------------------------------------------
\* Failed writes of the store
\* ------------------------------------------------------------------------
\* C17: a write of the store that fails inside saveSpeakerProfiles is
\* swallowed.  The speech event whose gap block makes the periodic save
\* leaves the store as it was, folds the segment, keeps names, colours,
\* speakerCount and currentSpeakerId, and goes on: sampling restarts on an
\* empty buffer, the analysis is pending, the time of the event is noted and
\* the speaker has a colour.  stopListening() whose writes all fail leaves
\* the store as it was, folds the segment, and still renders the saved
\* speakers and finalises the session.  A rename whose write fails keeps the
\* new name in memory and still renders the saved speakers.
C17_WriteFailureIsSwallowed ==
  [][/\ \A now \in Nows :
          (detectSpeakerChange(now).autoSave /\ OnResult(now, FALSE)) =>
            /\ storage' = storage
            /\ speakerProfiles' =
                 updateSpeakerProfile(speakerProfiles, currentSpeakerId,
                                      buildFingerprint(voiceSampleBuffer))
            /\ speakerNames' = speakerNames
            /\ \A id \in DOMAIN speakerColorMap :
                 /\ id \in DOMAIN speakerColorMap'
                 /\ speakerColorMap'[id] = speakerColorMap[id]
            /\ speakerCount' = speakerCount
            /\ currentSpeakerId' = currentSpeakerId
            /\ voiceSampleBuffer' = <<>>
            /\ voiceSampleTimer'
            /\ pendingAnalysis'
            /\ lastSpeechTime' = Epoch
            /\ currentSpeakerId' \in DOMAIN speakerColorMap'
     /\ \A autoSave \in BOOLEAN :
          StopListening(FALSE, FALSE, autoSave) =>
            /\ storage' = storage
            /\ speakerProfiles' =
                 updateSpeakerProfile(speakerProfiles, currentSpeakerId,
                                      buildFingerprint(voiceSampleBuffer))
            /\ speakerNames' = speakerNames
            /\ speakerColorMap' = speakerColorMap
            /\ speakerCount' = speakerCount
            /\ currentSpeakerId' = currentSpeakerId
            /\ ~isListening'
            /\ savedSpeakersList' = renderSavedSpeakers(storage)
            /\ sessionParagraphs' = finalizeSession(sessionParagraphs, autoSave)
     /\ \A id \in DOMAIN speakerColorMap, newName \in PromptNames :
          RenameSpeaker(id, newName, FALSE) =>
            /\ storage' = storage
            /\ speakerNames' = Put(speakerNames, id, newName)
            /\ speakerProfiles' = speakerProfiles
            /\ speakerColorMap' = speakerColorMap
            /\ speakerCount' = speakerCount
            /\ currentSpeakerId' = currentSpeakerId
            /\ savedSpeakersList' = renderSavedSpeakers(storage)]_vars

\* a session on an empty store in which the periodic save of the tenth fold
\* failed: the store is still empty, and the speech event went on
C17_Witness ==
  /\ isListening
  /\ storage = Absent
  /\ lastEvent.op = "result"
  /\ lastEvent.longGap
  /\ currentSpeakerId \in DOMAIN speakerProfiles
  /\ speakerProfiles[currentSpeakerId].sampleCount > 0
  /\ speakerProfiles[currentSpeakerId].sampleCount % 10 = 0
  /\ voiceSampleBuffer = <<>>
  /\ pendingAnalysis
  /\ currentSpeakerId \in DOMAIN speakerColorMap


\* ------------------------------------------------------------------------
\* Fingerprints of the sample lists and profiles of a session
\* ------------------------------------------------------------------------
RECURSIVE RSum(_)
\* the sum of a sequence of rationals
RSum(qs) == IF qs = <<>> THEN RInt(0) ELSE RAdd(Head(qs), RSum(Tail(qs)))

\* the deviations of the integers xs from avg, and their squares
Devs(xs, avg) == [i \in 1..Len(xs) |-> RSub(RInt(xs[i]), avg)]
SqDevs(xs, avg) ==
  [i \in 1..Len(xs) |-> RMul(RSub(RInt(xs[i]), avg), RSub(RInt(xs[i]), avg))]

\* avg is the arithmetic mean of xs and var their population variance
IsMeanAndVariance(xs, avg, var) ==
  /\ RSum(Devs(xs, avg)) = RInt(0)
  /\ RMul(RInt(Len(xs)), var) = RSum(SqDevs(xs, avg))

\* the sample lists buildFingerprint can be called on: the buffer and the
\* lists it grew through
SampleLists == {SubSeq(voiceSampleBuffer, 1, k) : k \in 0..Len(voiceSampleBuffer)}

\* the fingerprints compareFingerprints can be called on: those of the
\* sample lists, the stored profiles, and null
FingerprintsAtHand ==
  {buildFingerprint(samples) : samples \in SampleLists}
    \cup {Present(speakerProfiles[id]) : id \in DOMAIN speakerProfiles}
    \cup {Absent}

\* C18: buildFingerprint returns null for every sample list shorter than
\* VOICE_PROFILE_MIN_SAMPLES, and for every longer one a fingerprint that
\* holds the arithmetic mean and the population variance of the pitches and
\* of the centroids.
C18_FingerprintOfSamples ==
  \A samples \in SampleLists :
    LET fp == buildFingerprint(samples)
    IN /\ Len(samples) < VOICE_PROFILE_MIN_SAMPLES => fp = Absent
       /\ Len(samples) >= VOICE_PROFILE_MIN_SAMPLES =>
            /\ IsPresent(fp)
            /\ IsMeanAndVariance(Pitches(samples), Value(fp).pitchAvg,
                                 Value(fp).pitchVar)
            /\ IsMeanAndVariance(Centroids(samples), Value(fp).centroidAvg,
                                 Value(fp).centroidVar)

\* the buffer holds samples of two voices, as many as
\* VOICE_PROFILE_MIN_SAMPLES or more: its fingerprint has a variance, the
\* list of its first two samples has no fingerprint
C18_Witness ==
  /\ Len(voiceSampleBuffer) >= VOICE_PROFILE_MIN_SAMPLES
  /\ PureVoice(voiceSampleBuffer) \notin Voices
  /\ IsPresent(buildFingerprint(voiceSampleBuffer))
  /\ Value(buildFingerprint(voiceSampleBuffer)).pitchVar # RInt(0)
  /\ buildFingerprint(SubSeq(voiceSampleBuffer, 1, 2)) = Absent

\* C19: every fingerprint is as similar to itself as can be:
\* compareFingerprints(f, f) = 1.
C19_SelfSimilarityIsOne ==
  \A f \in FingerprintsAtHand :
    IsPresent(f) => compareFingerprints(f, f) = RInt(1)

\* a stored profile and a fingerprint of the buffer that differs from it
C19_Witness ==
  /\ currentSpeakerId \in DOMAIN speakerProfiles
  /\ IsPresent(buildFingerprint(voiceSampleBuffer))
  /\ Value(buildFingerprint(voiceSampleBuffer)).pitchAvg
       # speakerProfiles[currentSpeakerId].pitchAvg
  /\ compareFingerprints(Present(speakerProfiles[currentSpeakerId]),
                         Present(speakerProfiles[currentSpeakerId])) = RInt(1)

\* C20: compareFingerprints gives the same similarity whichever way round
\* its arguments are passed, null included.
C20_SimilarityIsSymmetric ==
  \A a \in FingerprintsAtHand, b \in FingerprintsAtHand :
    compareFingerprints(a, b) = compareFingerprints(b, a)

\* a fingerprint of the buffer and a stored profile that are neither equal
\* nor fully different
C20_Witness ==
  \E id \in DOMAIN speakerProfiles :
    LET fp == buildFingerprint(voiceSampleBuffer)
        similarity == compareFingerprints(fp, Present(speakerProfiles[id]))
    IN /\ IsPresent(fp)
       /\ RLess(RInt(0), similarity)
       /\ RLess(similarity, RInt(1))
       /\ compareFingerprints(Present(speakerProfiles[id]), fp) = similarity


OtherProfiles == (DOMAIN speakerProfiles) \ {currentSpeakerId}

\* the decision finds the new fingerprint to differ from the current
\* speaker's profile
DiffersFromCurrent ==
  /\ IsDecision
  /\ currentSpeakerId \in DOMAIN speakerProfiles
  /\ RLess(SimilarityTo(currentSpeakerId), differThreshold)

\* C22: at a re-evaluation decision whose fingerprint is less similar to the
\* current speaker's profile than differThreshold, while the most similar of
\* the other stored profiles reaches differThreshold, currentSpeakerId
\* becomes the id of a most similar other profile and speakerCount stays.
C22_SwitchesToBestOther ==
  [][(/\ DiffersFromCurrent
      /\ \E id \in OtherProfiles : RLeq(differThreshold, SimilarityTo(id)))
     => /\ currentSpeakerId' \in OtherProfiles
        /\ \A id \in OtherProfiles :
             RLeq(SimilarityTo(id), SimilarityTo(currentSpeakerId'))
        /\ speakerCount' = speakerCount]_vars

\* a decision has switched to the best of two other profiles: a third
\* profile scores above 0 and below the one of the new current speaker
C22_Witness ==
  /\ lastEvent.op = "result"
  /\ lastEvent.kind \in {"switch", "rematch"}
  /\ currentSpeakerId \in DOMAIN speakerProfiles
  /\ Cardinality(DOMAIN speakerProfiles) >= 3
  /\ RLeq(differThreshold, SimilarityTo(currentSpeakerId))
  /\ \E id \in OtherProfiles :
       /\ RLess(RInt(0), SimilarityTo(id))
       /\ RLess(SimilarityTo(id), SimilarityTo(currentSpeakerId))


\* C23: at a re-evaluation decision whose fingerprint is less similar to the
\* current speaker's profile than differThreshold, while no other stored
\* profile reaches differThreshold, currentSpeakerId becomes the speakerCount
\* of before the event and speakerCount grows by one; and every
\* re-evaluation decision clears the pending flag.
C23_MintsWhenNobodyMatches ==
  [][/\ (/\ DiffersFromCurrent
         /\ \A id \in OtherProfiles : RLess(SimilarityTo(id), differThreshold))
        => /\ currentSpeakerId' = speakerCount
           /\ speakerCount' = speakerCount + 1
     /\ IsDecision => ~pendingAnalysis']_vars

\* a decision has minted an id although a stored profile scores above 0
C23_Witness ==
  /\ lastEvent.op = "result"
  /\ lastEvent.kind = "mint"
  /\ currentSpeakerId = speakerCount - 1
  /\ currentSpeakerId \notin DOMAIN speakerProfiles
  /\ ~pendingAnalysis
  /\ Cardinality(DOMAIN speakerProfiles) >= 2
  /\ \E id \in DOMAIN speakerProfiles :
       /\ RLess(RInt(0), SimilarityTo(id))
       /\ RLess(SimilarityTo(id), differThreshold)


\* ------------------------------------------------------------------------
\* Waiting for samples
\* ------------------------------------------------------------------------
\* C24: while the analysis is pending and the buffer holds fewer than
\* VOICE_PROFILE_MIN_SAMPLES samples, a speech event without a new gap takes
\* no decision: currentSpeakerId, speakerCount and the stored profiles stay,
\* the pending flag stays set, and the event is attributed to the current
\* speaker of before.
C24_WaitsForSamples ==
  [][(/\ IsSpeechEvent
      /\ ~lastEvent'.longGap
      /\ pendingAnalysis
      /\ Len(voiceSampleBuffer) < VOICE_PROFILE_MIN_SAMPLES)
     => /\ currentSpeakerId' = currentSpeakerId
        /\ speakerCount' = speakerCount
        /\ speakerProfiles' = speakerProfiles
        /\ pendingAnalysis'
        /\ currentSpeakerId \in DOMAIN speakerColorMap'
        /\ lastEvent'.kind = "none"]_vars

\* a speech event has waited: the analysis is pending on a buffer of a few
\* samples, and the current speaker has a profile they could be held against
C24_Witness ==
  /\ lastEvent.op = "result"
  /\ ~lastEvent.longGap
  /\ lastEvent.kind = "none"
  /\ pendingAnalysis
  /\ Len(voiceSampleBuffer) > 0
  /\ Len(voiceSampleBuffer) < VOICE_PROFILE_MIN_SAMPLES
  /\ currentSpeakerId \in DOMAIN speakerProfiles


\* ------------------------------------------------------------------------
\* The gap block and the sampler
\* ------------------------------------------------------------------------
\* C25: the gap block of a speech event is one step for the sampler: the
\* fingerprint it folds into the outgoing speaker's profile is the one of
\* the whole buffer as the event found it, that is of the samples appended
\* since the buffer was last reset, and the buffer is empty when the event
\* is over, with the sampler running.
C25_GapBlockIsOneStep ==
  [][IsGapEvent
     => /\ speakerProfiles' =
             updateSpeakerProfile(speakerProfiles, currentSpeakerId,
                                  buildFingerprint(voiceSampleBuffer))
        /\ (/\ Len(voiceSampleBuffer) >= VOICE_PROFILE_MIN_SAMPLES
            /\ currentSpeakerId \notin DOMAIN speakerProfiles)
           => /\ currentSpeakerId \in DOMAIN speakerProfiles'
              /\ IsMeanAndVariance(Pitches(voiceSampleBuffer),
                                   speakerProfiles'[currentSpeakerId].pitchAvg,
                                   speakerProfiles'[currentSpeakerId].pitchVar)
              /\ IsMeanAndVariance(Centroids(voiceSampleBuffer),
                                   speakerProfiles'[currentSpeakerId].centroidAvg,
                                   speakerProfiles'[currentSpeakerId].centroidVar)
        /\ voiceSampleBuffer' = <<>>
        /\ voiceSampleTimer']_vars

\* a gap event has folded a buffer of samples of two voices into the
\* profile of the outgoing speaker and left the buffer empty
C25_Witness ==
  /\ lastEvent.op = "result"
  /\ lastEvent.longGap
  /\ lastEvent.kind = "fold"
  /\ voiceSampleBuffer = <<>>
  /\ voiceSampleTimer
  /\ currentSpeakerId \in DOMAIN speakerProfiles
  /\ speakerProfiles[currentSpeakerId].pitchVar # RInt(0)


\* ------------------------------------------------------------------------
\* The decision on an empty profile store
\* ------------------------------------------------------------------------
\* C26: a re-evaluation decision taken while the profile store has no entry
\* treats the similarity to the current speaker as maximal: it stays with
\* the current speaker, mints no id and clears the pending flag.
C26_EmptyStoreStaysWithCurrent ==
  [][(IsDecision /\ DOMAIN speakerProfiles = {})
     => /\ currentSpeakerId' = currentSpeakerId
        /\ speakerCount' = speakerCount
        /\ ~pendingAnalysis']_vars

\* a decision on an empty store has stayed with the current speaker
C26_Witness ==
  /\ lastEvent.op = "result"
  /\ lastEvent.kind = "stay"
  /\ DOMAIN speakerProfiles = {}
  /\ Len(voiceSampleBuffer) >= VOICE_PROFILE_MIN_SAMPLES
  /\ ~pendingAnalysis
  /\ currentSpeakerId < speakerCount

\* the same, with speaker 0 as the speaker the decision stays with
C26_EmptyStoreStaysWithZero ==
  [][(IsDecision /\ DOMAIN speakerProfiles = {})
     => /\ currentSpeakerId' = 0
        /\ speakerCount' = speakerCount
        /\ ~pendingAnalysis']_vars


\* ------------------------------------------------------------------------
\* Profile updates
\* ------------------------------------------------------------------------
\* the step folds the fingerprint of the buffer into the current speaker's
\* profile: the gap block of a speech event, or stopListening
IsFold ==
  /\ lastEvent'.op \in {"result", "stop"}
  /\ lastEvent'.kind = "fold"

\* old moved towards new by the rate
MovedBy(old, new, rate) == RAdd(old, RMul(rate, RSub(new, old)))

\* C27: the learning rate of an update of an existing profile is 1/2 when
\* its sampleCount is 1, 1/3 when it is 2, and 0.3 from sampleCount 3 on,
\* however many updates the profile has received.
C27_LearningRateSchedule ==
  [][(IsFold /\ currentSpeakerId \in DOMAIN speakerProfiles)
     => LET old == speakerProfiles[currentSpeakerId]
            fp == Value(buildFingerprint(voiceSampleBuffer))
            rate == IF old.sampleCount = 1 THEN <<1, 2>>
                    ELSE IF old.sampleCount = 2 THEN <<1, 3>>
                    ELSE <<3, 10>>
        IN speakerProfiles'[currentSpeakerId].pitchAvg =
             MovedBy(old.pitchAvg, fp.pitchAvg, rate)]_vars

\* C28: updateSpeakerProfile on an id with a profile of sampleCount n moves
\* pitchAvg, pitchVar, centroidAvg and centroidVar to
\* old * (1 - alpha) + new * alpha with the one alpha = min(0.3, 1 / (n + 1))
\* and sets sampleCount to n + 1; on an id without profile it stores the
\* fingerprint as it is with sampleCount 1.  No other profile changes.
C28_ProfileUpdate ==
  [][IsFold
     => LET fp == Value(buildFingerprint(voiceSampleBuffer))
            new == speakerProfiles'[currentSpeakerId]
        IN /\ DOMAIN speakerProfiles' = DOMAIN speakerProfiles \cup {currentSpeakerId}
           /\ \A id \in DOMAIN speakerProfiles :
                id # currentSpeakerId => speakerProfiles'[id] = speakerProfiles[id]
           /\ currentSpeakerId \notin DOMAIN speakerProfiles
                => /\ new.pitchAvg = fp.pitchAvg
                   /\ new.pitchVar = fp.pitchVar
                   /\ new.centroidAvg = fp.centroidAvg
                   /\ new.centroidVar = fp.centroidVar
                   /\ new.sampleCount = 1
           /\ currentSpeakerId \in DOMAIN speakerProfiles
                => LET old == speakerProfiles[currentSpeakerId]
                       n == old.sampleCount
                       alpha == IF 3 * (n + 1) >= 10 THEN <<1, n + 1>>
                                ELSE <<3, 10>>
                   IN /\ new.pitchAvg = MovedBy(old.pitchAvg, fp.pitchAvg, alpha)
                      /\ new.pitchVar = MovedBy(old.pitchVar, fp.pitchVar, alpha)
                      /\ new.centroidAvg =
                           MovedBy(old.centroidAvg, fp.centroidAvg, alpha)
                      /\ new.centroidVar =
                           MovedBy(old.centroidVar, fp.centroidVar, alpha)
                      /\ new.sampleCount = n + 1]_vars

\* a fold has moved the profile of the current speaker towards another
\* voice: its pitch is the pitch of neither voice
C28_Witness ==
  /\ lastEvent.kind = "fold"
  /\ currentSpeakerId \in DOMAIN speakerProfiles
  /\ speakerProfiles[currentSpeakerId].sampleCount > 1
  /\ \A voice \in Voices :
       speakerProfiles[currentSpeakerId].pitchAvg # RInt(VoiceFeatures(voice).pitch)


\* C29: updateSpeakerProfile without fingerprint does nothing: a speech
\* event with a silence gap, or stopListening, that finds fewer than
\* VOICE_PROFILE_MIN_SAMPLES samples in the buffer creates and changes no
\* profile, and the gap block writes nothing to the store.
C29_NoFingerprintNoUpdate ==
  [][(/\ IsGapEvent \/ lastEvent'.op = "stop"
      /\ Len(voiceSampleBuffer) < VOICE_PROFILE_MIN_SAMPLES)
     => /\ speakerProfiles' = speakerProfiles
        /\ IsGapEvent => storage' = storage]_vars

\* a gap event has found too few samples for the profile of the current
\* speaker, which is one update short of the periodic save
C29_Witness ==
  /\ lastEvent.op = "result"
  /\ lastEvent.longGap
  /\ lastEvent.kind = "none"
  /\ voiceSampleBuffer = <<>>
  /\ currentSpeakerId \in DOMAIN speakerProfiles
  /\ (speakerProfiles[currentSpeakerId].sampleCount + 1) % 10 = 0


\* ------------------------------------------------------------------------
\* Samples without signal
\* ------------------------------------------------------------------------
\* the fields of state the model keeps, without the history variables
programState ==
  <<isListening, recognition, voiceSampleTimer, pitchAnalyser,
    voiceSampleBuffer, pendingAnalysis, currentSpeakerId, speakerCount,
    speakerProfiles, speakerNames, speakerColorMap, nextColorIndex,
    lastSpeechTime, speakerSensitivity, storage, savedSpeakersList,
    sessionParagraphs>>

\* C30: every sample in the segment buffer has a pitch above 0 and a
\* centroid above 0, and a sampler tick whose pitch or centroid is 0 leaves
\* the buffer and the rest of the state as they were.
C30_OnlyVoicedSamples ==
  [][/\ \A i \in 1..Len(voiceSampleBuffer') :
          /\ voiceSampleBuffer'[i].pitch > 0
          /\ voiceSampleBuffer'[i].centroid > 0
     /\ \A sound \in Voices \cup Unvoiced :
          (/\ SamplerTick(sound)
           /\ estimatePitch(sound) = 0 \/ calculateSpectralCentroid(sound) = 0)
          => programState' = programState]_vars

\* the sampler, started by a gap event, has ticked on a sound without pitch
\* or without centroid: the buffer is still empty
C30_Witness ==
  /\ voiceSampleTimer
  /\ pitchAnalyser
  /\ pendingAnalysis
  /\ lastEvent = NoEvent
  /\ voiceSampleBuffer = <<>>


\* ------------------------------------------------------------------------
\* The periodic save
\* ------------------------------------------------------------------------
\* the sampleCount the store holds for a speaker, 0 if it holds none
StoredCount(stored, speakerId) ==
  LET saved == loadSpeakerProfiles(stored, TRUE)
  IN IF IsPresent(saved) /\ speakerId \in DOMAIN Value(saved).profiles
     THEN Value(saved).profiles[speakerId].sampleCount
     ELSE 0

\* the number of updates of a profile the store has not seen
Lag(speakerId) ==
  speakerProfiles[speakerId].sampleCount - StoredCount(storage, speakerId)

\* C31: an update of a profile in a speech event writes the snapshot exactly
\* when the sampleCount of the updated profile becomes a multiple of 10, and
\* while writes succeed the store lags each profile in memory by fewer than
\* 10 updates.
C31_PeriodicSaveBoundsLoss ==
  [][/\ IsSpeechEvent =>
          LET tenth == /\ IsFold
                       /\ currentSpeakerId \in DOMAIN speakerProfiles
                       /\ speakerProfiles'[currentSpeakerId].sampleCount % 10 = 0
          IN /\ tenth =>
                  /\ IsPresent(storage')
                  /\ JSONparse(Value(storage')).profiles = speakerProfiles'
             /\ ~tenth => storage' = storage
     /\ \A id \in DOMAIN speakerProfiles' : Lag(id)' < 10]_vars

\* a session never stopped has passed the first periodic save and nine more
\* updates: the store holds the profile of the tenth update
C31_Witness ==
  /\ savedSpeakersList = {}
  /\ 0 \in DOMAIN speakerProfiles
  /\ speakerProfiles[0].sampleCount = 19
  /\ StoredCount(storage, 0) = 10


\* ------------------------------------------------------------------------
\* The first speech event of a session
\* ------------------------------------------------------------------------
\* C32: the first speech event after resetSpeakerState has silence gap 0,
\* whatever time has passed since the last speech event of an earlier
\* session: it takes no decision, updates no profile and is attributed to
\* speaker 0.
C32_FirstEventHasNoGap ==
  [][(IsSpeechEvent /\ ~heardSpeech)
     => /\ ~lastEvent'.longGap
        /\ lastEvent'.kind = "none"
        /\ ~pendingAnalysis'
        /\ speakerProfiles' = speakerProfiles
        /\ storage' = storage
        /\ speakerCount' = speakerCount
        /\ currentSpeakerId' = 0]_vars

\* the first speech events of a session that follows a stopped session with
\* a saved speaker have been handled
C32_Witness ==
  /\ recognition = "active"
  /\ lastEvent.op = "result"
  /\ heardSpeech
  /\ ~gapSeen
  /\ savedSpeakersList # {}
  /\ speakerProfiles # EmptyMap
  /\ currentSpeakerId = 0


\* ------------------------------------------------------------------------
\* Segments without a decision
\* ------------------------------------------------------------------------
\* C33: no buffer is folded into the current speaker's profile while the
\* analysis of its segment is pending: every fold, at a silence gap or at
\* stopListening, finds the pending flag cleared.
C33_NoFoldWhilePending ==
  [][IsFold => ~pendingAnalysis]_vars


\* ------------------------------------------------------------------------
\* Deleting one saved speaker
\* ------------------------------------------------------------------------
\* the record the store holds (the store is written)
Stored(stored) == Value(loadSpeakerProfiles(stored, TRUE))

\* C34: the delete button of one saved speaker leaves every other speaker
\* of the store with the profile, the name and the colour the store held,
\* whether it is pressed before the first session of the page, between
\* sessions or during a session.
C34_DeleteKeepsOthers ==
  [][\A id \in savedSpeakersList :
       (DeleteSavedSpeaker(id, TRUE) /\ IsPresent(storage))
       => /\ IsPresent(storage')
          /\ \A other \in (DOMAIN Stored(storage).profiles) \ {id} :
               /\ other \in DOMAIN Stored(storage').profiles
               /\ Stored(storage').profiles[other] = Stored(storage).profiles[other]
               /\ \A field \in {"names", "colorMap"} :
                    other \in DOMAIN Stored(storage)[field]
                    => /\ other \in DOMAIN Stored(storage')[field]
                       /\ Stored(storage')[field][other] = Stored(storage)[field][other]]_vars


\* ------------------------------------------------------------------------
\* One decision per silence gap
\* ------------------------------------------------------------------------
\* C35: currentSpeakerId changes at most once between two speech events
\* with a silence gap: the decision clears the pending flag, and while the
\* flag is cleared a sampler tick or a speech event whose gap does not exceed
\* the analysis threshold keeps currentSpeakerId, speakerCount and the flag.
C35_OneDecisionPerGap ==
  [][/\ IsDecision => ~pendingAnalysis'
     /\ (/\ IsSpeechEvent \/ \E voice \in Voices \cup {Silence} : SamplerTick(voice)
         /\ ~lastEvent'.longGap
         /\ ~pendingAnalysis)
        => /\ currentSpeakerId' = currentSpeakerId
           /\ speakerCount' = speakerCount
           /\ ~pendingAnalysis']_vars

\* a speech event without gap has been handled after the decision that
\* minted the current speaker, on a buffer that has grown since
C35_Witness ==
  /\ lastEvent.op = "result"
  /\ lastEvent.kind = "none"
  /\ ~lastEvent.longGap
  /\ gapSeen
  /\ ~pendingAnalysis
  /\ voiceSampleTimer
  /\ currentSpeakerId > 0
  /\ currentSpeakerId = speakerCount - 1
  /\ currentSpeakerId \notin DOMAIN speakerProfiles
  /\ Len(voiceSampleBuffer) > VOICE_PROFILE_MIN_SAMPLES


\* ------------------------------------------------------------------------
\* The profile of a minted speaker
\* ------------------------------------------------------------------------
\* the current speaker is the id minted last and has no profile yet
MintedWithoutProfile ==
  /\ currentSpeakerId > 0
  /\ currentSpeakerId = speakerCount - 1
  /\ currentSpeakerId \notin DOMAIN speakerProfiles

\* C36: a minted speaker id has a profile after the next speech event with
\* a silence gap or after stopListening, whichever comes first: the profile
\* is the fingerprint of the buffer that led to the mint, and stopListening
\* also writes it to the store.
C36_MintedGetsProfile ==
  [][(MintedWithoutProfile /\ (IsGapEvent \/ lastEvent'.op = "stop"))
     => /\ currentSpeakerId \in DOMAIN speakerProfiles'
        /\ speakerProfiles'[currentSpeakerId] =
             CreatedProfile(Value(buildFingerprint(voiceSampleBuffer)))
        /\ lastEvent'.op = "stop"
           => /\ IsPresent(storage')
              /\ currentSpeakerId \in DOMAIN Stored(storage').profiles]_vars

\* a gap event has given the speaker minted in the segment before its
\* first profile
C36_Witness ==
  /\ lastEvent.op = "result"
  /\ lastEvent.longGap
  /\ lastEvent.kind = "fold"
  /\ currentSpeakerId > 0
  /\ currentSpeakerId = speakerCount - 1
  /\ currentSpeakerId \in DOMAIN speakerProfiles
  /\ speakerProfiles[currentSpeakerId].sampleCount = 1
  /\ currentSpeakerId \notin savedSpeakersList


\* ------------------------------------------------------------------------
\* Progress of the re-evaluation
\* ------------------------------------------------------------------------
\* C37: while the sampler delivers voiced samples and speech events arrive
\* within the analysis threshold, a pending analysis is followed by a
\* decision that clears the flag, unless another silence gap is detected
\* first.
C37_PendingIsDecided ==
  pendingAnalysis ~> (~pendingAnalysis \/ (lastEvent.op = "result" /\ lastEvent.longGap))

\* the decision of a pending analysis has just been taken
C37_Witness ==
  /\ lastEvent.op = "result"
  /\ ~lastEvent.longGap
  /\ lastEvent.kind \in {"stay", "stayBetterOther", "switch", "rematch", "mint"}
  /\ ~pendingAnalysis
  /\ voiceSampleTimer
  /\ Len(voiceSampleBuffer) >= VOICE_PROFILE_MIN_SAMPLES


\* ------------------------------------------------------------------------
\* One fold per segment
\* ------------------------------------------------------------------------
\* C38: no buffer content is passed to updateSpeakerProfile twice: the
\* buffer stopListening has folded is not folded again by the handler that
\* runs next (the sampler is stopped, so the buffer is still the same).
C38_FoldedOnce ==
  [][(lastEvent.op = "stop" /\ lastEvent.kind = "fold") => ~IsFold]_vars

====
